---- MODULE Spec2Model ----
(***************************************************************************)
(* Lineage exploration of the OpenMetadata explorer webview:               *)
(*   - getHiddenNodes, the hide-propagation of LineageViewer               *)
(*     (transformToReactFlowData), as an operator and as a step machine;   *)
(*   - the LineageModal session: open/close, initial load, expand and      *)
(*     collapse, and the merge of expanded lineage data.                   *)
(***************************************************************************)
EXTENDS Naturals, Sequences, FiniteSets, TLC

VARIABLES
    \* ---- input and output of one getHiddenNodes computation
    edgesIn,          \* `edges` prop of LineageViewer: a sequence of EdgeDetails
    upIn,             \* upstreamHidden: set of node keys
    downIn,           \* downstreamHidden: set of node keys
    hiddenNodeIds,    \* the Set being built by getHiddenNodes
    pc,               \* "start" | "up" | "down" | "done" | "overflow"
    upLeft,           \* keys of upstreamHidden.forEach still to visit
    downLeft,         \* keys of downstreamHidden.forEach still to visit
    stack,            \* call stack of the forEach loops: frames [top, cur, i]
    \* ---- the lineage session (App, LineageModal, LineageViewer)
    isOpen,           \* App: lineageModal.isOpen
    tableFqn,         \* App: lineageModal.tableFqn ("" while closed)
    loading,          \* LineageModal: loading
    error,            \* LineageModal: error ("" is null)
    lineageData,      \* LineageModal: lineageData, the WorkingGraph (or NullData)
    rendered,         \* the state of the last render: what the live closures hold
    upstreamHidden,   \* LineageViewer: upstreamHidden
    downstreamHidden, \* LineageViewer: downstreamHidden
    inflight,         \* requests posted to the extension and not yet answered;
                      \* history: each is marked once the session it was issued
                      \* in has been closed
    lastMerged,       \* history: expandedData of the message handled last, if
                      \* handleExpandedLineageData merged it (else NoMerge)
    \* ---- the LineageViewer's canvas
    flow,             \* reactFlowNodes and reactFlowEdges: the output of the
                      \* transform whose layout resolved last
    lastToggle,       \* history: the handleExpand/handleCollapse call made last
    layout,           \* the layoutNodes calls made on the canvas: how many, the
                      \* outcome of elk.layout in the last one, the list returned
    pendingLayouts,   \* the layoutNodes promises not yet resolved, in the order
                      \* of the calls: the nodes and edges each will set
    query             \* the getLineageData call under way: its config and the
                      \* query parameters sent to the catalog

closureVars == <<edgesIn, upIn, downIn, hiddenNodeIds, pc, upLeft, downLeft, stack>>
sessionVars == <<isOpen, tableFqn, loading, error, lineageData, rendered,
                 upstreamHidden, downstreamHidden, inflight, lastMerged>>
viewVars == <<flow, lastToggle, layout, pendingLayouts, query>>
vars == <<closureVars, sessionVars, viewVars>>

\* ------------------------------------------------------------------ bounds
MaxHEdges == 3        \* edges of a getHiddenNodes input (operator)
MaxTEdges == 3        \* edges of a getHiddenNodes input (step machine)
MaxStack == 6         \* frames the call stack holds before a RangeError
MaxInflight == 2      \* requests awaiting their answer
MaxXEdges == 3        \* edges of a transformToReactFlowData input
MaxVEdges == 2        \* edges of the graph a LineageViewer is mounted on
MaxPending == 2       \* layoutNodes promises pending at a time
MaxDepth == 5         \* largest depth a LineageConfig asks for

\* ------------------------------------------------------------- entity refs
\* An edge endpoint: { id, type, fullyQualifiedName? }; "" is an absent name.
RefA == [id |-> "a", fullyQualifiedName |-> "A"]
RefB == [id |-> "B", fullyQualifiedName |-> ""]
RefC == [id |-> "c", fullyQualifiedName |-> "C"]
RefD == [id |-> "D", fullyQualifiedName |-> ""]

HRefs == {RefA, RefB, RefC, RefD}
TRefs == {RefA, RefB, RefC}
SRefs == {RefA, RefB}

\* `x.fullyQualifiedName || x.id`
Key(ref) == IF ref.fullyQualifiedName # "" THEN ref.fullyQualifiedName ELSE ref.id

MkEdge(f, t) == [fromEntity |-> f, toEntity |-> t]
EdgesOver(refs) == {MkEdge(f, t) : f \in refs, t \in refs}
KeysOver(refs) == {Key(r) : r \in refs}

RECURSIVE SetToSeq(_)
\* The elements of a JS Set (or the values of a map) in one iteration order.
SetToSeq(S) ==
    IF S = {} THEN <<>>
    ELSE LET x == CHOOSE y \in S : TRUE IN <<x>> \o SetToSeq(S \ {x})

\* ------------------------------------------------ getHiddenNodes (operator)
\* The guard of the recursive step: `!hiddenNodeIds.has(sId)`.
NotYetHiddenNever(id, hidden) == TRUE
NotYetHidden(id, hidden) == id \notin hidden

RECURSIVE UpLoop(_, _, _, _)
\* addUpstreamRecursively(currentId): edges.forEach from index i on.
UpLoop(edges, currentId, i, hidden) ==
    IF i > Len(edges) THEN hidden
    ELSE LET tId == Key(edges[i].toEntity)
             sId == Key(edges[i].fromEntity)
         IN  IF tId = currentId /\ NotYetHidden(sId, hidden)
             THEN UpLoop(edges, currentId, i + 1,
                         UpLoop(edges, sId, 1, hidden \cup {sId}))
             ELSE UpLoop(edges, currentId, i + 1, hidden)

RECURSIVE DownLoop(_, _, _, _)
\* addDownstreamRecursively(currentId): edges.forEach from index i on.
DownLoop(edges, currentId, i, hidden) ==
    IF i > Len(edges) THEN hidden
    ELSE LET sId == Key(edges[i].fromEntity)
             tId == Key(edges[i].toEntity)
         IN  IF sId = currentId /\ NotYetHidden(tId, hidden)
             THEN DownLoop(edges, currentId, i + 1,
                           DownLoop(edges, tId, 1, hidden \cup {tId}))
             ELSE DownLoop(edges, currentId, i + 1, hidden)

RECURSIVE UpOuter(_, _, _, _)
\* Body of upstreamHidden.forEach(nodeId => edges.forEach(edge => ...)).
UpOuter(edges, nodeId, i, hidden) ==
    IF i > Len(edges) THEN hidden
    ELSE LET targetId == Key(edges[i].toEntity)
             sourceId == Key(edges[i].fromEntity)
         IN  IF targetId = nodeId
             THEN UpOuter(edges, nodeId, i + 1,
                          UpLoop(edges, sourceId, 1, hidden \cup {sourceId}))
             ELSE UpOuter(edges, nodeId, i + 1, hidden)

RECURSIVE DownOuter(_, _, _, _)
\* Body of downstreamHidden.forEach(nodeId => edges.forEach(edge => ...)).
DownOuter(edges, nodeId, i, hidden) ==
    IF i > Len(edges) THEN hidden
    ELSE LET sourceId == Key(edges[i].fromEntity)
             targetId == Key(edges[i].toEntity)
         IN  IF sourceId = nodeId
             THEN DownOuter(edges, nodeId, i + 1,
                            DownLoop(edges, targetId, 1, hidden \cup {targetId}))
             ELSE DownOuter(edges, nodeId, i + 1, hidden)

RECURSIVE ForEachUp(_, _, _)
ForEachUp(edges, ids, hidden) ==
    IF ids = <<>> THEN hidden
    ELSE ForEachUp(edges, Tail(ids), UpOuter(edges, Head(ids), 1, hidden))

RECURSIVE ForEachDown(_, _, _)
ForEachDown(edges, ids, hidden) ==
    IF ids = <<>> THEN hidden
    ELSE ForEachDown(edges, Tail(ids), DownOuter(edges, Head(ids), 1, hidden))

\* getHiddenNodes(): one Set shared by the upstream and the downstream pass.
GetHiddenNodes(edges, up, down) ==
    ForEachDown(edges, SetToSeq(down), ForEachUp(edges, SetToSeq(up), {}))

\* --------------------------------------------- reference closure (the spec)
RECURSIVE Closure(_, _, _)
\* Least set holding `acc` and closed under the step relation `rel`
\* (a set of <<from, to>> pairs).
Closure(rel, acc, n) ==
    IF n = 0 THEN acc
    ELSE LET nxt == acc \cup {p[2] : p \in {q \in rel : q[1] \in acc}}
         IN  IF nxt = acc THEN acc ELSE Closure(rel, nxt, n - 1)

FwdRel(edges) ==
    {<<Key(edges[i].fromEntity), Key(edges[i].toEntity)>> : i \in DOMAIN edges}
BwdRel(edges) ==
    {<<Key(edges[i].toEntity), Key(edges[i].fromEntity)>> : i \in DOMAIN edges}

\* Nodes reached from `starts` by one or more steps of `rel`.
ReachPlus(rel, starts) ==
    LET first == {p[2] : p \in {q \in rel : q[1] \in starts}}
    IN  Closure(rel, first, Cardinality(rel) + 1)

UnionOfClosures(edges, up, down) ==
    ReachPlus(BwdRel(edges), up) \cup ReachPlus(FwdRel(edges), down)

\* ------------------------------------------------------ session data model
\* EntityReference { id, fullyQualifiedName, ... } of the two catalog tables.
EntT == [id |-> "a", fullyQualifiedName |-> "T"]
EntU == [id |-> "a-a", fullyQualifiedName |-> "U"]
NoEntity == [id |-> "", fullyQualifiedName |-> ""]
Catalog == <<EntT, EntU>>
Tables == {"T"}
\* The lineage edges the catalog holds, in the order of its edge ids.
CatalogEdges == <<MkEdge(EntT, EntU), MkEdge(EntU, EntT)>>

\* { nodes, edges, centerNode } | null
NullData == [null |-> TRUE, nodes |-> <<>>, edges |-> <<>>, centerNode |-> NoEntity]
MkData(ns, es, c) == [null |-> FALSE, nodes |-> ns, edges |-> es, centerNode |-> c]
\* `{ nodes: [], edges: [], centerNode: null }`
EmptyData == MkData(<<>>, <<>>, NoEntity)
\* History of the last message event: whether it merged an expand result,
\* the result, whether the event before it had merged the same result,
\* whether it was the answer to an expand whose fetch had failed, the type of
\* the message, whether "Try Again" has been clicked since the last open,
\* close or toggle, and what the catalog had answered to the request.
NoMerge == [merged |-> FALSE, data |-> NullData, again |-> FALSE, failed |-> FALSE,
            type |-> "", retried |-> FALSE, answer |-> ""]

\* The state before any session: closed modal, nothing loaded.
SessionIdle ==
    /\ isOpen = FALSE
    /\ tableFqn = ""
    /\ loading = FALSE
    /\ error = ""
    /\ lineageData = NullData
    /\ rendered = [loading |-> FALSE, error |-> "", lineageData |-> NullData]
    /\ upstreamHidden = {}
    /\ downstreamHidden = {}
    /\ inflight = {}
    /\ lastMerged = NoMerge

\* useNodesState([]) and useEdgesState([]): nothing on the canvas yet.
EmptyFlow == [done |-> FALSE, nodes |-> <<>>, edges |-> <<>>]
NoToggle == [op |-> "none", key |-> "", direction |-> "", was |-> FALSE, before |-> <<>>]
\* No getLineageData call made.
NoQuery == [sent |-> FALSE, fqn |-> "", config |-> <<>>, params |-> <<>>]
\* No layoutNodes call made yet.
NoLayout == [calls |-> 0, elk |-> "none", nodes |-> <<>>]
ViewIdle ==
    /\ flow = EmptyFlow
    /\ lastToggle = NoToggle
    /\ layout = NoLayout
    /\ pendingLayouts = <<>>
    /\ query = NoQuery

\* ------------------------------------------------ the catalog and backend
\* What the catalog answers to one lineage query: Object.values of the
\* `nodes` map (one entry per catalog entity, so ids differ) and of the two
\* edge maps (keyed by edge id; an edge may be in both maps; a map holds at
\* most one edge here), or an HTTP failure.
NodeLists == {<<>>, <<EntT>>, <<EntU>>, <<EntT, EntU>>}
EdgeLists == {<<>>} \cup {<<CatalogEdges[i]>> : i \in DOMAIN CatalogEdges}
RawResponses ==
    {[ok |-> o, nodes |-> ns, upstreamEdges |-> u, downstreamEdges |-> d] :
        o \in {TRUE}, ns \in NodeLists, u \in EdgeLists, d \in EdgeLists}
    \cup {[ok |-> FALSE, nodes |-> <<>>, upstreamEdges |-> <<>>, downstreamEdges |-> <<>>]}

\* nodes.find(node => node.fullyQualifiedName === fqn), or NoEntity
FindByFqn(nodes, fqn) ==
    IF \E i \in DOMAIN nodes : nodes[i].fullyQualifiedName = fqn
    THEN nodes[CHOOSE i \in DOMAIN nodes :
                  /\ nodes[i].fullyQualifiedName = fqn
                  /\ \A j \in 1..(i - 1) : nodes[j].fullyQualifiedName # fqn]
    ELSE NoEntity

\* The kind of the catalog's answer `raw` to a query for fqn: an HTTP failure,
\* a lineage without the entity asked for, or one with it.
GatewayAnswer(raw, fqn) ==
    IF ~raw.ok THEN "failed"
    ELSE IF \A i \in DOMAIN raw.nodes : raw.nodes[i].fullyQualifiedName # fqn
    THEN "nocenter"
    ELSE "ok"

Thrown(msg) == [ok |-> FALSE, error |-> msg, data |-> NullData]
Returned(data) == [ok |-> TRUE, error |-> "", data |-> data]

\* LineageService.getSimpleLineage on the catalog's answer `raw`.
GetSimpleLineage(raw, fqn) ==
    IF ~raw.ok THEN Thrown("Failed to fetch lineage data")
    ELSE IF FindByFqn(raw.nodes, fqn) = NoEntity THEN Thrown("Center node not found")
    ELSE Returned(MkData(raw.nodes, raw.upstreamEdges \o raw.downstreamEdges,
                         FindByFqn(raw.nodes, fqn)))

\* getDirectionalLineage without the test of centerNode.
GetDirectionalLineageUnchecked(raw, fqn, upstreamDepth, downstreamDepth) ==
    IF ~raw.ok THEN Thrown("Failed to fetch lineage data")
    ELSE Returned(MkData(raw.nodes,
                         (IF upstreamDepth > 0 THEN raw.upstreamEdges ELSE <<>>)
                         \o (IF downstreamDepth > 0 THEN raw.downstreamEdges ELSE <<>>),
                         FindByFqn(raw.nodes, fqn)))

\* LineageService.getDirectionalLineage on the catalog's answer `raw`.
GetDirectionalLineage(raw, fqn, upstreamDepth, downstreamDepth) ==
    IF ~raw.ok THEN Thrown("Failed to fetch lineage data")
    ELSE IF FindByFqn(raw.nodes, fqn) = NoEntity THEN Thrown("Center node not found")
    ELSE Returned(MkData(raw.nodes,
                         (IF upstreamDepth > 0 THEN raw.upstreamEdges ELSE <<>>)
                         \o (IF downstreamDepth > 0 THEN raw.downstreamEdges ELSE <<>>),
                         FindByFqn(raw.nodes, fqn)))

Msg(type, fqn, nodeId, direction, data, err) ==
    [type |-> type, tableFqn |-> fqn, nodeId |-> nodeId, direction |-> direction,
     data |-> data, error |-> err]

\* OpenMetadataExplorerProvider.handleGetLineage: the message it posts.
HandleGetLineage(req, raw) ==
    LET r == GetSimpleLineage(raw, req.tableFqn)
    IN  IF r.ok THEN Msg("lineageData", req.tableFqn, "", "", r.data, "")
        ELSE Msg("lineageError", req.tableFqn, "", "", NullData, r.error)

\* handleExpandLineage with the catch block of handleGetLineage: a failed
\* fetch is reported as lineageError.
HandleExpandLineageSurfacesError(req, raw) ==
    LET r == IF req.direction = "upstream"
             THEN GetDirectionalLineage(raw, req.nodeId, 2, 0)
             ELSE IF req.direction = "downstream"
             THEN GetDirectionalLineage(raw, req.nodeId, 0, 2)
             ELSE GetSimpleLineage(raw, req.nodeId)
    IN  IF r.ok
        THEN Msg("expandedLineageData", req.tableFqn, req.nodeId, req.direction,
                 r.data, "")
        ELSE Msg("lineageError", req.tableFqn, "", "", NullData, r.error)

\* A handler that fetches both directions whatever the direction asked.
ExpandCallBoth(direction) ==
    [fn |-> "getDirectionalLineage", upstreamDepth |-> 2, downstreamDepth |-> 2]

\* handleExpandLineage: the service call it makes for a direction, and the
\* depths it passes.
ExpandCall(direction) ==
    IF direction = "upstream"
    THEN [fn |-> "getDirectionalLineage", upstreamDepth |-> 2, downstreamDepth |-> 0]
    ELSE IF direction = "downstream"
    THEN [fn |-> "getDirectionalLineage", upstreamDepth |-> 0, downstreamDepth |-> 2]
    ELSE [fn |-> "getSimpleLineage", upstreamDepth |-> 2, downstreamDepth |-> 2]

\* getLineageData: the upstreamDepth and downstreamDepth of the query string.
GetLineageParams(fqn, upstreamDepth, downstreamDepth) ==
    [fqn |-> fqn,
     upstreamDepth |-> IF upstreamDepth = 0 THEN 0 ELSE upstreamDepth - 1,
     downstreamDepth |-> downstreamDepth]

\* OpenMetadataExplorerProvider.handleExpandLineage: the message it posts.
HandleExpandLineage(req, raw) ==
    LET c == ExpandCall(req.direction)
        r == IF c.fn = "getDirectionalLineage"
             THEN GetDirectionalLineage(raw, req.nodeId, c.upstreamDepth,
                                        c.downstreamDepth)
             ELSE GetSimpleLineage(raw, req.nodeId)
    IN  Msg("expandedLineageData", req.tableFqn, req.nodeId, req.direction,
            IF r.ok THEN r.data ELSE EmptyData, "")

\* OpenMetadataExplorerProvider.handleCollapseLineage: the message it posts.
HandleCollapseLineage(req) ==
    Msg("collapsedLineage", req.tableFqn, req.nodeId, req.direction, NullData, "")

\* ------------------------------------------------------------- the webview
\* `${e.fromEntity.id}-${e.toEntity.id}`
EdgeKey(e) == e.fromEntity.id \o "-" \o e.toEntity.id
EdgePair(e) == <<e.fromEntity.id, e.toEntity.id>>

SeqRange(q) == {q[i] : i \in DOMAIN q}
NodeIds(data) == {n.id : n \in SeqRange(data.nodes)}
EdgeKeys(data) == {EdgeKey(e) : e \in SeqRange(data.edges)}
EdgePairs(data) == {EdgePair(e) : e \in SeqRange(data.edges)}

\* The filters left out: every returned entity, every returned edge.
NewNodesUnfiltered(existing, expandedData) == expandedData.nodes
NewEdgesUnfiltered(existing, expandedData) == expandedData.edges

\* expandedData.nodes.filter(node => !existingNodeIds.has(node.id))
NewNodes(existing, expandedData) ==
    SelectSeq(expandedData.nodes, LAMBDA n : n.id \notin NodeIds(existing))
\* expandedData.edges.filter(edge => !existingEdgeKeys.has(key of edge))
NewEdges(existing, expandedData) ==
    SelectSeq(expandedData.edges, LAMBDA e : EdgeKey(e) \notin EdgeKeys(existing))

\* A merge that takes the centerNode of the expand result.
HandleExpandedLineageDataRecentred(held, cur, expandedData) ==
    IF held.null \/ Len(expandedData.nodes) = 0 THEN cur
    ELSE [held EXCEPT !.nodes = held.nodes \o NewNodes(held, expandedData),
                      !.edges = held.edges \o NewEdges(held, expandedData),
                      !.centerNode = expandedData.centerNode]

\* LineageModal.handleExpandedLineageData, with `held` the lineageData its
\* closure holds and `cur` the current state: the value lineageData has next.
HandleExpandedLineageData(held, cur, expandedData) ==
    IF held.null \/ Len(expandedData.nodes) = 0 THEN cur
    ELSE [held EXCEPT !.nodes = held.nodes \o NewNodes(held, expandedData),
                      !.edges = held.edges \o NewEdges(held, expandedData)]

Snapshot == [loading |-> loading, error |-> error, lineageData |-> lineageData]

\* handleMessage with a lineageError case that only records the error.
HandleMessageKeepsGraph(msg) ==
    IF msg.tableFqn # tableFqn THEN Snapshot
    ELSE IF msg.type = "lineageData"
    THEN [loading |-> FALSE, error |-> "", lineageData |-> msg.data]
    ELSE IF msg.type = "lineageError"
    THEN [Snapshot EXCEPT !.error = msg.error]
    ELSE Snapshot

\* handleMessage with a lineageError case that leaves loading as it is.
HandleMessageStaysLoading(msg) ==
    IF msg.tableFqn # tableFqn THEN Snapshot
    ELSE IF msg.type = "lineageData"
    THEN [loading |-> FALSE, error |-> "", lineageData |-> msg.data]
    ELSE IF msg.type = "lineageError"
    THEN [Snapshot EXCEPT !.error = msg.error, !.lineageData = NullData]
    ELSE IF msg.type = "expandedLineageData"
    THEN [Snapshot EXCEPT !.lineageData =
             HandleExpandedLineageData(rendered.lineageData, lineageData, msg.data)]
    ELSE Snapshot

\* handleMessage without the comparison of message.tableFqn with tableFqn.
HandleMessageAnyTable(msg) ==
    IF msg.type = "lineageData"
    THEN [loading |-> FALSE, error |-> "", lineageData |-> msg.data]
    ELSE IF msg.type = "lineageError"
    THEN [loading |-> FALSE, error |-> msg.error, lineageData |-> NullData]
    ELSE IF msg.type = "expandedLineageData"
    THEN [Snapshot EXCEPT !.lineageData =
             HandleExpandedLineageData(rendered.lineageData, lineageData, msg.data)]
    ELSE Snapshot

\* LineageModal's handleMessage: the state [loading, error, lineageData] it
\* leaves, for the listener registered at the last render.
HandleMessage(msg) ==
    IF msg.tableFqn # tableFqn THEN Snapshot
    ELSE IF msg.type = "lineageData"
    THEN [loading |-> FALSE, error |-> "", lineageData |-> msg.data]
    ELSE IF msg.type = "lineageError"
    THEN [loading |-> FALSE, error |-> msg.error, lineageData |-> NullData]
    ELSE IF msg.type = "expandedLineageData"
    THEN [Snapshot EXCEPT !.lineageData =
             HandleExpandedLineageData(rendered.lineageData, lineageData, msg.data)]
    ELSE Snapshot

\* handleMessage passes msg to handleExpandedLineageData and that one does not
\* return early: the merge is made.
Merges(msg) ==
    /\ msg.tableFqn = tableFqn
    /\ msg.type = "expandedLineageData"
    /\ ~rendered.lineageData.null
    /\ Len(msg.data.nodes) # 0

\* msg answers an expandLineage request whose fetch threw: a successful fetch
\* returns at least the center node.
ExpandFailed(req, msg) ==
    req.type = "expandLineage" /\ Len(msg.data.nodes) = 0

\* Whether LineageModal renders the LineageViewer in state st.
ViewerMounted(open, st) ==
    open /\ ~st.loading /\ st.error = "" /\ ~st.lineageData.null

\* --- transformToReactFlowData: the rendered nodes and their controls
HasUpstreamConnections(edges, nodeId) ==
    \E i \in DOMAIN edges : Key(edges[i].toEntity) = nodeId
HasDownstreamConnections(edges, nodeId) ==
    \E i \in DOMAIN edges : Key(edges[i].fromEntity) = nodeId
UpstreamMap(edges) == {Key(edges[i].fromEntity) : i \in DOMAIN edges}
DownstreamMap(edges) == {Key(edges[i].toEntity) : i \in DOMAIN edges}

\* The filter left out: every node of the graph.
FlowNodesAll(data, up, down) == data.nodes

\* nodes.filter(node => !hiddenNodeIds.has(node.fullyQualifiedName || node.id))
FlowNodes(data, up, down) ==
    SelectSeq(data.nodes,
              LAMBDA n : Key(n) \notin GetHiddenNodes(data.edges, up, down))

CanExpandUpstream(data, centerFqn, n) ==
    \/ n.fullyQualifiedName = centerFqn
    \/ HasUpstreamConnections(data.edges, Key(n))
    \/ (~HasUpstreamConnections(data.edges, Key(n))
        /\ n.fullyQualifiedName \in UpstreamMap(data.edges))
CanExpandDownstream(data, centerFqn, n) ==
    \/ n.fullyQualifiedName = centerFqn
    \/ HasDownstreamConnections(data.edges, Key(n))
    \/ (~HasDownstreamConnections(data.edges, Key(n))
        /\ n.fullyQualifiedName \in DownstreamMap(data.edges))

\* ExpandCollapseButtons: node n shows the expand (+) button of direction dir.
ShowsExpand(data, centerFqn, up, down, n, dir) ==
    IF dir = "upstream"
    THEN /\ CanExpandUpstream(data, centerFqn, n)
         /\ (HasUpstreamConnections(data.edges, Key(n)) => Key(n) \in up)
    ELSE /\ CanExpandDownstream(data, centerFqn, n)
         /\ (HasDownstreamConnections(data.edges, Key(n)) => Key(n) \in down)

\* ExpandCollapseButtons: node n shows the collapse (-) button of direction dir.
ShowsCollapse(data, centerFqn, up, down, n, dir) ==
    IF dir = "upstream"
    THEN /\ CanExpandUpstream(data, centerFqn, n)
         /\ HasUpstreamConnections(data.edges, Key(n))
         /\ Key(n) \notin up
         /\ n.fullyQualifiedName = centerFqn
    ELSE /\ CanExpandDownstream(data, centerFqn, n)
         /\ HasDownstreamConnections(data.edges, Key(n))
         /\ Key(n) \notin down

Directions == {"upstream", "downstream"}

\* ------------------------------------------- SpecHidden: the pure function
HiddenInputs ==
    {SetToSeq(S) : S \in {X \in SUBSET EdgesOver(HRefs) : Cardinality(X) <= MaxHEdges}}

InitHidden ==
    /\ edgesIn \in HiddenInputs
    /\ upIn \in SUBSET KeysOver(HRefs)
    /\ downIn \in SUBSET KeysOver(HRefs)
    /\ hiddenNodeIds = {}
    /\ pc = "start"
    /\ upLeft = {}
    /\ downLeft = {}
    /\ stack = <<>>
    /\ SessionIdle
    /\ ViewIdle

\* const hiddenNodeIds = getHiddenNodes();
ComputeHidden ==
    /\ pc = "start"
    /\ hiddenNodeIds' = GetHiddenNodes(edgesIn, upIn, downIn)
    /\ pc' = "done"
    /\ UNCHANGED <<edgesIn, upIn, downIn, upLeft, downLeft, stack>>
    /\ UNCHANGED <<sessionVars, viewVars>>

NextHidden == ComputeHidden

SpecHidden == InitHidden /\ [][NextHidden]_vars

\* C1: the hidden-node set is the union of the transitive upstream closure of
\* upstreamHidden and the transitive downstream closure of downstreamHidden.
C1_UnionOfClosures ==
    pc = "done" => hiddenNodeIds = UnionOfClosures(edgesIn, upIn, downIn)

\* C3: for the cycle A->B, B->A with upstream hidden at A, exactly {B} is hidden.
C3_CycleHidesOnlyB ==
    (/\ pc = "done"
     /\ edgesIn \in {<<MkEdge(RefA, RefB), MkEdge(RefB, RefA)>>,
                     <<MkEdge(RefB, RefA), MkEdge(RefA, RefB)>>}
     /\ upIn = {"A"}
     /\ downIn = {})
    => hiddenNodeIds = {"B"}

\* ------------------------------- SpecTraverse: getHiddenNodes step by step
\* One step is one iteration of an edges.forEach callback, or the return of
\* one. A frame is one running edges.forEach: `top` for the loop in the body
\* of upstreamHidden.forEach / downstreamHidden.forEach, otherwise the loop
\* of addUpstreamRecursively / addDownstreamRecursively on `cur`.
Frame(top, cur, i) == [top |-> top, cur |-> cur, i |-> i]
TopFrame == stack[Len(stack)]
Advance(stk) == [stk EXCEPT ![Len(stk)].i = @ + 1]

\* The endpoint of edge e compared with the current id in pass `dir` ...
MatchKey(dir, e) == IF dir = "up" THEN Key(e.toEntity) ELSE Key(e.fromEntity)
\* ... and the endpoint that gets hidden.
OtherKey(dir, e) == IF dir = "up" THEN Key(e.fromEntity) ELSE Key(e.toEntity)

\* Inputs of the step machine: every edge array (any order, repeated edges
\* included) over two nodes, and every duplicate-free edge set over three
\* nodes in one order; each with every pair of hidden sets over its nodes.
TraverseInputs ==
    {[edges |-> e, keys |-> KeysOver(SRefs)] :
        e \in UNION {[1..n -> EdgesOver(SRefs)] : n \in 0..MaxTEdges}}
    \cup
    {[edges |-> SetToSeq(S), keys |-> KeysOver(TRefs)] :
        S \in {X \in SUBSET EdgesOver(TRefs) : Cardinality(X) <= MaxTEdges}}

InitTraverse ==
    /\ \E in \in TraverseInputs :
          /\ edgesIn = in.edges
          /\ upIn \in SUBSET in.keys
          /\ downIn \in SUBSET in.keys
    /\ hiddenNodeIds = {}
    /\ pc = "up"
    /\ upLeft = upIn
    /\ downLeft = downIn
    /\ stack = <<>>
    /\ SessionIdle
    /\ ViewIdle

\* upstreamHidden.forEach(nodeId => edges.forEach(...)): the next nodeId.
TNextUp ==
    /\ pc = "up" /\ stack = <<>>
    /\ \E nodeId \in upLeft :
          /\ upLeft' = upLeft \ {nodeId}
          /\ stack' = <<Frame(TRUE, nodeId, 1)>>
    /\ UNCHANGED <<edgesIn, upIn, downIn, hiddenNodeIds, pc, downLeft>>
    /\ UNCHANGED <<sessionVars, viewVars>>

\* upstreamHidden.forEach is over; downstreamHidden.forEach begins.
TUpDone ==
    /\ pc = "up" /\ stack = <<>> /\ upLeft = {}
    /\ pc' = "down"
    /\ UNCHANGED <<edgesIn, upIn, downIn, hiddenNodeIds, upLeft, downLeft, stack>>
    /\ UNCHANGED <<sessionVars, viewVars>>

\* downstreamHidden.forEach(nodeId => edges.forEach(...)): the next nodeId.
TNextDown ==
    /\ pc = "down" /\ stack = <<>>
    /\ \E nodeId \in downLeft :
          /\ downLeft' = downLeft \ {nodeId}
          /\ stack' = <<Frame(TRUE, nodeId, 1)>>
    /\ UNCHANGED <<edgesIn, upIn, downIn, hiddenNodeIds, pc, upLeft>>
    /\ UNCHANGED <<sessionVars, viewVars>>

\* return hiddenNodeIds;
TDownDone ==
    /\ pc = "down" /\ stack = <<>> /\ downLeft = {}
    /\ pc' = "done"
    /\ UNCHANGED <<edgesIn, upIn, downIn, hiddenNodeIds, upLeft, downLeft, stack>>
    /\ UNCHANGED <<sessionVars, viewVars>>

\* The forEach of the top frame has visited every edge: the call returns.
TReturn ==
    /\ pc \in {"up", "down"} /\ stack # <<>>
    /\ TopFrame.i > Len(edgesIn)
    /\ stack' = SubSeq(stack, 1, Len(stack) - 1)
    /\ UNCHANGED <<edgesIn, upIn, downIn, hiddenNodeIds, pc, upLeft, downLeft>>
    /\ UNCHANGED <<sessionVars, viewVars>>

\* Whether the callback of frame f hides the other endpoint of edge e and
\* recurses: always in the outer loop, guarded in the recursive step.
Enters(dir, f, e, hidden) ==
    /\ MatchKey(dir, e) = f.cur
    /\ (f.top \/ NotYetHidden(OtherKey(dir, e), hidden))

\* The callback passes over an edge.
TSkip ==
    /\ pc \in {"up", "down"} /\ stack # <<>>
    /\ TopFrame.i <= Len(edgesIn)
    /\ ~Enters(pc, TopFrame, edgesIn[TopFrame.i], hiddenNodeIds)
    /\ stack' = Advance(stack)
    /\ UNCHANGED <<edgesIn, upIn, downIn, hiddenNodeIds, pc, upLeft, downLeft>>
    /\ UNCHANGED <<sessionVars, viewVars>>

\* hiddenNodeIds.add(id); addUpstreamRecursively(id) (or Downstream). A call
\* beyond the engine's stack limit throws a RangeError that nothing catches.
TEnter ==
    /\ pc \in {"up", "down"} /\ stack # <<>>
    /\ TopFrame.i <= Len(edgesIn)
    /\ Enters(pc, TopFrame, edgesIn[TopFrame.i], hiddenNodeIds)
    /\ LET id == OtherKey(pc, edgesIn[TopFrame.i]) IN
          /\ hiddenNodeIds' = hiddenNodeIds \cup {id}
          /\ IF Len(stack) < MaxStack
             THEN /\ stack' = Append(Advance(stack), Frame(FALSE, id, 1))
                  /\ pc' = pc
             ELSE /\ stack' = stack
                  /\ pc' = "overflow"
    /\ UNCHANGED <<edgesIn, upIn, downIn, upLeft, downLeft>>
    /\ UNCHANGED <<sessionVars, viewVars>>

NextTraverse ==
    \/ TNextUp
    \/ TUpDone
    \/ TNextDown
    \/ TDownDone
    \/ TReturn
    \/ TSkip
    \/ TEnter

SpecTraverse == InitTraverse /\ [][NextTraverse]_vars

\* The JS event loop runs the synchronous computation to its end.
FairTraverse == SpecTraverse /\ WF_vars(NextTraverse)

\* The step machine and the operator compute the same set, in whatever order
\* the Sets are iterated.
TraverseAgrees ==
    pc = "done" => hiddenNodeIds = GetHiddenNodes(edgesIn, upIn, downIn)

HasCycle(edges) ==
    \E i \in DOMAIN edges :
        Key(edges[i].fromEntity) \in ReachPlus(FwdRel(edges), {Key(edges[i].fromEntity)})

\* C2: getHiddenNodes terminates on every finite edge set, cycles and
\* self-loops included: every run reaches `return hiddenNodeIds`.
C2_Terminates == <>(pc = "done")

\* A finished computation on a cyclic edge set whose recursion went round
\* the cycle: the node the direction was hidden at is itself in the result.
C2_Witness ==
    /\ pc = "done"
    /\ HasCycle(edgesIn)
    /\ (upIn \cup downIn) \cap hiddenNodeIds # {}

\* --------------------------------------------------- Spec: the session
ClosureIdle ==
    /\ edgesIn = <<>>
    /\ upIn = {}
    /\ downIn = {}
    /\ hiddenNodeIds = {}
    /\ pc = "done"
    /\ upLeft = {}
    /\ downLeft = {}
    /\ stack = <<>>

Init == SessionIdle /\ ClosureIdle /\ ViewIdle

\* A message posted by vscode.postMessage, with the history mark.
Req(type, fqn, nodeId, direction) ==
    [type |-> type, tableFqn |-> fqn, nodeId |-> nodeId, direction |-> direction,
     closed |-> FALSE]

\* A render commits the current state: the closures of the next events hold
\* it, and a LineageViewer that is no longer rendered loses its state.
Render(up, down) ==
    /\ rendered' = [loading |-> loading', error |-> error', lineageData |-> lineageData']
    /\ upstreamHidden' = IF ViewerMounted(isOpen', rendered') THEN up ELSE {}
    /\ downstreamHidden' = IF ViewerMounted(isOpen', rendered') THEN down ELSE {}

\* App.handleViewLineage(t), then LineageModal's open effect: fetchLineageData.
\* The modal covers the result list, so a table is opened from the closed state.
Open(t) ==
    /\ ~isOpen
    /\ Cardinality(inflight) < MaxInflight
    /\ isOpen' = TRUE
    /\ tableFqn' = t
    /\ loading' = TRUE
    /\ error' = ""
    /\ lineageData' = lineageData
    /\ inflight' = inflight \cup {Req("getLineage", t, "", "")}
    /\ lastMerged' = NoMerge
    /\ Render({}, {})
    /\ UNCHANGED <<closureVars, viewVars>>

\* App.handleCloseLineage, then LineageModal's close effect (the reset).
Close ==
    /\ isOpen
    /\ isOpen' = FALSE
    /\ tableFqn' = ""
    /\ lineageData' = NullData
    /\ error' = ""
    /\ lastMerged' = NoMerge
    /\ inflight' = {[r EXCEPT !.closed = TRUE] : r \in inflight}
    /\ UNCHANGED loading
    /\ Render({}, {})
    /\ UNCHANGED <<closureVars, viewVars>>

\* The "Try Again" button: fetchLineageData.
Retry ==
    /\ isOpen
    /\ rendered.error # ""
    /\ Cardinality(inflight) < MaxInflight
    /\ loading' = TRUE
    /\ error' = ""
    /\ inflight' = inflight \cup {Req("getLineage", tableFqn, "", "")}
    /\ lastMerged' = [NoMerge EXCEPT !.retried = TRUE]
    /\ UNCHANGED <<isOpen, tableFqn, lineageData>>
    /\ Render(upstreamHidden, downstreamHidden)
    /\ UNCHANGED <<closureVars, viewVars>>

\* Variants of the two state updaters: no local change, a flip of the key's
\* membership, the loss of every key.
HiddenSetKept(prev, nodeId) == prev
HiddenSetFlipped(prev, nodeId) ==
    IF nodeId \in prev THEN prev \ {nodeId} ELSE prev \cup {nodeId}
HiddenSetCleared(prev, nodeId) == {}

\* handleExpand's updater: `newSet.delete(nodeId)` on a copy of prev.
ExpandedSet(prev, nodeId) == prev \ {nodeId}
\* handleCollapse's updater: `new Set(prev).add(nodeId)`.
CollapsedSet(prev, nodeId) == prev \cup {nodeId}

\* LineageViewer.handleExpand(n, dir), then LineageModal.handleExpandNode.
HandleExpand(n, dir) ==
    /\ ViewerMounted(isOpen, rendered)
    /\ n \in SeqRange(FlowNodes(rendered.lineageData, upstreamHidden, downstreamHidden))
    /\ ShowsExpand(rendered.lineageData, tableFqn, upstreamHidden, downstreamHidden, n, dir)
    /\ Cardinality(inflight) < MaxInflight
    /\ inflight' = inflight \cup {Req("expandLineage", tableFqn, Key(n), dir)}
    /\ lastMerged' = NoMerge
    /\ UNCHANGED <<isOpen, tableFqn, loading, error, lineageData>>
    /\ Render(IF dir = "upstream" THEN ExpandedSet(upstreamHidden, Key(n))
                                   ELSE upstreamHidden,
              IF dir = "downstream" THEN ExpandedSet(downstreamHidden, Key(n))
                                     ELSE downstreamHidden)
    /\ UNCHANGED <<closureVars, viewVars>>

\* LineageViewer.handleCollapse(n, dir), then LineageModal.handleCollapseNode.
HandleCollapse(n, dir) ==
    /\ ViewerMounted(isOpen, rendered)
    /\ n \in SeqRange(FlowNodes(rendered.lineageData, upstreamHidden, downstreamHidden))
    /\ ShowsCollapse(rendered.lineageData, tableFqn, upstreamHidden, downstreamHidden, n, dir)
    /\ Cardinality(inflight) < MaxInflight
    /\ inflight' = inflight \cup {Req("collapseLineage", tableFqn, Key(n), dir)}
    /\ lastMerged' = NoMerge
    /\ UNCHANGED <<isOpen, tableFqn, loading, error, lineageData>>
    /\ Render(IF dir = "upstream" THEN CollapsedSet(upstreamHidden, Key(n))
                                   ELSE upstreamHidden,
              IF dir = "downstream" THEN CollapsedSet(downstreamHidden, Key(n))
                                     ELSE downstreamHidden)
    /\ UNCHANGED <<closureVars, viewVars>>

\* The message event of `msg`, the answer to request `req`: handleMessage
\* runs with the closures of the last render; no render happens yet.
Deliver(req, msg, answer) ==
    /\ inflight' = inflight \ {req}
    /\ loading' = HandleMessage(msg).loading
    /\ error' = HandleMessage(msg).error
    /\ lineageData' = HandleMessage(msg).lineageData
    /\ lastMerged' = IF Merges(msg)
                     THEN [merged |-> TRUE, data |-> msg.data,
                           again |-> lastMerged.merged /\ lastMerged.data = msg.data,
                           failed |-> FALSE,
                           type |-> msg.type, retried |-> lastMerged.retried,
                           answer |-> answer]
                     ELSE [NoMerge EXCEPT !.failed = ExpandFailed(req, msg),
                                          !.type = msg.type,
                                          !.retried = lastMerged.retried,
                                          !.answer = answer]
    /\ UNCHANGED <<isOpen, tableFqn, rendered, upstreamHidden, downstreamHidden>>
    /\ UNCHANGED <<closureVars, viewVars>>

\* The extension answers a getLineage request.
RespondGetLineage ==
    \E req \in inflight :
        /\ req.type = "getLineage"
        /\ \E a \in {<<HandleGetLineage(req, raw), GatewayAnswer(raw, req.tableFqn)>> :
                          raw \in RawResponses} :
              Deliver(req, a[1], a[2])

\* The extension answers an expandLineage request.
RespondExpandLineage ==
    \E req \in inflight :
        /\ req.type = "expandLineage"
        /\ \E a \in {<<HandleExpandLineage(req, raw), GatewayAnswer(raw, req.nodeId)>> :
                          raw \in RawResponses} :
              Deliver(req, a[1], a[2])

\* The extension answers a collapseLineage request.
RespondCollapseLineage ==
    \E req \in inflight :
        /\ req.type = "collapseLineage"
        /\ Deliver(req, HandleCollapseLineage(req), "")

\* React renders the state the message handlers have set.
Commit ==
    /\ rendered # Snapshot
    /\ UNCHANGED <<isOpen, tableFqn, loading, error, lineageData, inflight, lastMerged>>
    /\ Render(upstreamHidden, downstreamHidden)
    /\ UNCHANGED <<closureVars, viewVars>>

Next ==
    \/ \E t \in Tables : Open(t)
    \/ Close
    \/ Retry
    \/ \E n \in SeqRange(Catalog), dir \in Directions : HandleExpand(n, dir)
    \/ \E n \in SeqRange(Catalog), dir \in Directions : HandleCollapse(n, dir)
    \/ RespondGetLineage
    \/ RespondExpandLineage
    \/ RespondCollapseLineage
    \/ Commit

Spec == Init /\ [][Next]_vars

\* ------------------------------------------------- properties of the session
\* The WorkingGraph is LineageModal's lineageData.
Loaded == isOpen /\ ~lineageData.null

\* A step in which handleExpandedLineageData merges an expand result
\* (lastMerged'.data) into lineageData.
MergeStep == lastMerged'.merged /\ inflight' # inflight

\* Distinct (fromId, toId) pairs of the edges have distinct dedup keys.
KeysFaithful(edges) ==
    \A e1, e2 \in edges : EdgeKey(e1) = EdgeKey(e2) => EdgePair(e1) = EdgePair(e2)

\* C4: in a session the WorkingGraph never holds two edges with the same
\* (fromEntity.id, toEntity.id) pair, whatever the responses contain.
C4_NoDuplicateEdges ==
    Loaded =>
        \A i, j \in DOMAIN lineageData.edges :
            EdgePair(lineageData.edges[i]) = EdgePair(lineageData.edges[j]) => i = j

\* C5: in a session no two entities of the WorkingGraph share an id.
C5_NoDuplicateEntities ==
    Loaded =>
        \A i, j \in DOMAIN lineageData.nodes :
            lineageData.nodes[i].id = lineageData.nodes[j].id => i = j

\* An expand result that repeats both entities of a two-entity WorkingGraph
\* has been merged.
C5_Witness ==
    /\ Loaded
    /\ lastMerged.merged
    /\ Len(lastMerged.data.nodes) = 2
    /\ Len(lineageData.nodes) = 2

\* C6: a merge made on the rendered WorkingGraph appends exactly the returned
\* entities whose id is new and exactly the returned edges whose
\* (fromId, toId) pair is new, and keeps what was there.
C6_MergeAppendsExactlyNew ==
    [][(MergeStep /\ rendered.lineageData = lineageData) =>
          /\ lineageData'.nodes = lineageData.nodes \o
                 SelectSeq(lastMerged'.data.nodes,
                           LAMBDA n : n.id \notin NodeIds(lineageData))
          /\ lineageData'.edges = lineageData.edges \o
                 SelectSeq(lastMerged'.data.edges,
                           LAMBDA e : EdgePair(e) \notin EdgePairs(lineageData))]_vars

\* C7: a merge of the expand result that the merge just before it merged
\* leaves the entities and the edges of the WorkingGraph as they were.
C7_MergeIdempotent ==
    [][(MergeStep /\ lastMerged.merged /\ lastMerged'.data = lastMerged.data) =>
          /\ lineageData'.nodes = lineageData.nodes
          /\ lineageData'.edges = lineageData.edges]_vars

\* The same expand result, with an edge, has been merged twice in succession.
C7_Witness ==
    /\ Loaded
    /\ lastMerged.merged
    /\ lastMerged.again
    /\ Len(lastMerged.data.edges) > 0

\* C8: when the results of two expand requests are merged one after the
\* other, whether or not a render came between, the WorkingGraph then holds
\* all it held before and every entity and edge of both results (stated for
\* ids whose dedup keys tell the edge pairs apart).
C8_ConcurrentExpandsKeepAll ==
    [][(/\ MergeStep
        /\ lastMerged.merged
        /\ KeysFaithful(SeqRange(lineageData.edges)
                        \cup SeqRange(lastMerged.data.edges)
                        \cup SeqRange(lastMerged'.data.edges))) =>
          /\ SeqRange(lineageData.nodes) \subseteq SeqRange(lineageData'.nodes)
          /\ SeqRange(lineageData.edges) \subseteq SeqRange(lineageData'.edges)
          /\ NodeIds(lastMerged.data) \cup NodeIds(lastMerged'.data)
                 \subseteq NodeIds(lineageData')
          /\ EdgePairs(lastMerged.data) \cup EdgePairs(lastMerged'.data)
                 \subseteq EdgePairs(lineageData')]_vars

\* C9: while a session stays open, every entity and edge of the loaded
\* WorkingGraph is still in it after each event.
C9_OnlyGrows ==
    [][(Loaded /\ isOpen') =>
          /\ ~lineageData'.null
          /\ SeqRange(lineageData.nodes) \subseteq SeqRange(lineageData'.nodes)
          /\ SeqRange(lineageData.edges) \subseteq SeqRange(lineageData'.edges)]_vars

\* C10: the answer to a request whose session has been closed never changes
\* the WorkingGraph, that of a later session on the same table included.
C10_ClosedSessionDiscarded ==
    [][\A req \in inflight \ inflight' :
          req.closed => lineageData' = lineageData]_vars

\* The hidden-direction set of a direction.
HiddenAt(dir, up, down) == IF dir = "upstream" THEN up ELSE down

\* A step that delivers the answer to an expand whose fetch failed.
FailedExpandStep == lastMerged'.failed /\ inflight' # inflight

\* C11: the answer to an expand whose fetch failed leaves the WorkingGraph,
\* the error state and the hidden-direction sets as they are, and the expand
\* itself has taken the node's key out of the direction's hidden set.
C11_FailedExpandLeavesGraph ==
    [][/\ FailedExpandStep =>
            /\ lineageData' = lineageData
            /\ error' = error
            /\ loading' = loading
            /\ upstreamHidden' = upstreamHidden
            /\ downstreamHidden' = downstreamHidden
       /\ \A req \in inflight' \ inflight :
            req.type = "expandLineage" =>
                req.nodeId \notin HiddenAt(req.direction, upstreamHidden',
                                           downstreamHidden')]_vars

\* In a loaded session without error, the answer to a failed expand has been
\* handled.
C11_Witness ==
    /\ Loaded
    /\ error = ""
    /\ lastMerged.failed
    /\ ViewerMounted(isOpen, rendered)

\* A step that delivers the answer to request req.
AnswerStep(req) ==
    /\ req \in inflight \ inflight'
    /\ inflight' \subseteq inflight
    /\ isOpen' = isOpen

\* C12: a collapse puts the node's key into the direction's hidden set of the
\* viewer, and the collapsedLineage echo, whenever it arrives, leaves both
\* hidden sets as they are.
C12_CollapseIsLocal ==
    [][/\ \A req \in inflight' \ inflight :
            (req.type = "collapseLineage" /\ ViewerMounted(isOpen', rendered')) =>
                req.nodeId \in HiddenAt(req.direction, upstreamHidden',
                                        downstreamHidden')
       /\ \A req \in inflight :
            (req.type = "collapseLineage" /\ AnswerStep(req)) =>
                /\ upstreamHidden' = upstreamHidden
                /\ downstreamHidden' = downstreamHidden]_vars

\* A key is hidden in the mounted viewer and every collapse notification has
\* been answered.
C12_Witness ==
    /\ ViewerMounted(isOpen, rendered)
    /\ upstreamHidden \cup downstreamHidden # {}
    /\ \A req \in inflight : req.type # "collapseLineage"

\* ------------------------------------------------ the LineageViewer canvas
\* nodes.find(n => n.fullyQualifiedName === ref.fullyQualifiedName ||
\*                 n.id === ref.id), or NoEntity; two absent names are equal.
FindNode(nodes, ref) ==
    LET hit(i) == \/ nodes[i].fullyQualifiedName = ref.fullyQualifiedName
                  \/ nodes[i].id = ref.id
    IN  IF \E i \in DOMAIN nodes : hit(i)
        THEN nodes[CHOOSE i \in DOMAIN nodes :
                      hit(i) /\ \A j \in 1..(i - 1) : ~hit(j)]
        ELSE NoEntity

\* The `data` of the flow node made of entity n.
FlowNodeData(data, centerFqn, up, down, n) ==
    LET isCenter == n.fullyQualifiedName = centerFqn
    IN  [entity |-> n,
         isCenter |-> isCenter,
         isUpstream |-> ~isCenter /\ n.fullyQualifiedName \in UpstreamMap(data.edges),
         isDownstream |-> ~isCenter /\ n.fullyQualifiedName \in DownstreamMap(data.edges),
         hasUpstreamConnections |-> HasUpstreamConnections(data.edges, Key(n)),
         hasDownstreamConnections |-> HasDownstreamConnections(data.edges, Key(n)),
         upstreamHidden |-> Key(n) \in up,
         downstreamHidden |-> Key(n) \in down,
         canExpandUpstream |-> CanExpandUpstream(data, centerFqn, n),
         canExpandDownstream |-> CanExpandDownstream(data, centerFqn, n)]

\* flowEdges without the test of hiddenNodeIds.
FlowEdgesOfHidden(data, up, down) ==
    LET src(i) == FindNode(data.nodes, data.edges[i].fromEntity)
        tgt(i) == FindNode(data.nodes, data.edges[i].toEntity)
        all == [i \in DOMAIN data.edges |->
                   [id |-> i - 1, source |-> src(i).id, target |-> tgt(i).id,
                    kept |-> src(i) # NoEntity /\ tgt(i) # NoEntity]]
        shown == SelectSeq(all, LAMBDA e : e.kept)
    IN  [i \in DOMAIN shown |->
            [id |-> shown[i].id, source |-> shown[i].source, target |-> shown[i].target]]

\* flowEdges: the edges whose two ends are found among the nodes and are not
\* hidden, as { id: `edge-${index}`, source, target }.
FlowEdges(data, up, down) ==
    LET hidden == GetHiddenNodes(data.edges, up, down)
        src(i) == FindNode(data.nodes, data.edges[i].fromEntity)
        tgt(i) == FindNode(data.nodes, data.edges[i].toEntity)
        kept(i) == /\ src(i) # NoEntity
                   /\ tgt(i) # NoEntity
                   /\ Key(src(i)) \notin hidden
                   /\ Key(tgt(i)) \notin hidden
        all == [i \in DOMAIN data.edges |->
                   [id |-> i - 1, source |-> src(i).id, target |-> tgt(i).id,
                    kept |-> kept(i)]]
        shown == SelectSeq(all, LAMBDA e : e.kept)
    IN  [i \in DOMAIN shown |->
            [id |-> shown[i].id, source |-> shown[i].source, target |-> shown[i].target]]

\* transformToReactFlowData followed by the layout: the canvas it leaves, given
\* the canvas `old` it found. The layout keeps the nodes and their data.
TransformToReactFlowData(data, centerFqn, up, down, old) ==
    IF Len(data.nodes) = 0 \/ FindByFqn(data.nodes, centerFqn) = NoEntity
    THEN old
    ELSE LET shown == FlowNodes(data, up, down)
         IN  [done |-> TRUE,
              nodes |-> [i \in DOMAIN shown |->
                            FlowNodeData(data, centerFqn, up, down, shown[i])],
              edges |-> FlowEdges(data, up, down)]

\* Variants of the buttons: the upstream side without the center-only rule,
\* the upstream side without the test of upstreamHidden, the downstream side
\* with the center-only rule.
UpstreamControlUnrestricted(d) ==
    IF ~d.canExpandUpstream THEN "none"
    ELSE IF ~d.hasUpstreamConnections THEN "expand"
    ELSE IF d.upstreamHidden THEN "expand"
    ELSE "collapse"
UpstreamControlIgnoringHidden(d) ==
    IF ~d.canExpandUpstream THEN "none"
    ELSE IF ~d.hasUpstreamConnections THEN "expand"
    ELSE IF d.isCenter THEN "collapse"
    ELSE "placeholder"
DownstreamControlCenterOnly(d) ==
    IF ~d.canExpandDownstream THEN "none"
    ELSE IF ~d.hasDownstreamConnections THEN "expand"
    ELSE IF d.downstreamHidden THEN "expand"
    ELSE IF d.isCenter THEN "collapse"
    ELSE "placeholder"

\* ExpandCollapseButtons: what a flow node shows on its upstream side.
UpstreamControl(d) ==
    IF ~d.canExpandUpstream THEN "none"
    ELSE IF ~d.hasUpstreamConnections THEN "expand"
    ELSE IF d.upstreamHidden THEN "expand"
    ELSE IF d.isCenter THEN "collapse"
    ELSE "placeholder"

\* ExpandCollapseButtons: what a flow node shows on its downstream side.
DownstreamControl(d) ==
    IF ~d.canExpandDownstream THEN "none"
    ELSE IF ~d.hasDownstreamConnections THEN "expand"
    ELSE IF d.downstreamHidden THEN "expand"
    ELSE "collapse"

Control(d, dir) == IF dir = "upstream" THEN UpstreamControl(d) ELSE DownstreamControl(d)

\* ------------------------------- SpecTransform: transformToReactFlowData
\* A third entity, without fullyQualifiedName: its key is its id.
EntW == [id |-> "w", fullyQualifiedName |-> ""]
ViewEntities == {EntT, EntU, EntW}
ViewNodeLists ==
    {<<>>, <<EntU, EntW>>, <<EntT>>, <<EntT, EntU>>, <<EntT, EntW>>,
     <<EntT, EntU, EntW>>, <<EntW, EntU, EntT>>}
ViewEdgeLists(n) ==
    {SetToSeq(S) : S \in {X \in SUBSET EdgesOver(ViewEntities) : Cardinality(X) <= n}}

\* A LineageViewer rendered by the modal for table "T" on a graph of at most
\* n edges: the props it is given.
ViewerProps(n) ==
    /\ isOpen = TRUE
    /\ tableFqn = "T"
    /\ loading = FALSE
    /\ error = ""
    /\ \E ns \in ViewNodeLists, es \in ViewEdgeLists(n) :
          lineageData = MkData(ns, es, FindByFqn(ns, "T"))
    /\ rendered = [loading |-> FALSE, error |-> "", lineageData |-> lineageData]
    /\ inflight = {}
    /\ lastMerged = NoMerge

InitTransform ==
    /\ ViewerProps(MaxXEdges)
    /\ upstreamHidden \in SUBSET KeysOver(ViewEntities)
    /\ downstreamHidden \in SUBSET KeysOver(ViewEntities)
    /\ ViewIdle
    /\ ClosureIdle

\* The effect on [nodes, edges, centerNodeFqn, upstreamHidden,
\* downstreamHidden]: transformToReactFlowData, and its layout resolves.
RunTransform ==
    /\ ViewerMounted(isOpen, rendered)
    /\ flow' = TransformToReactFlowData(rendered.lineageData, tableFqn,
                                        upstreamHidden, downstreamHidden, flow)
    /\ flow' # flow
    /\ UNCHANGED <<closureVars, sessionVars, lastToggle, layout, pendingLayouts, query>>

NextTransform == RunTransform

SpecTransform == InitTransform /\ [][NextTransform]_vars

\* ------------------------- SpecViewer: a LineageViewer on a fixed graph
\* Three tables in a chain A -> B -> C, and the viewer the modal renders for
\* table "B" on that graph.
EntA == [id |-> "1", fullyQualifiedName |-> "A"]
EntB == [id |-> "2", fullyQualifiedName |-> "B"]
EntC == [id |-> "3", fullyQualifiedName |-> "C"]
ChainData == MkData(<<EntA, EntB, EntC>>, <<MkEdge(EntA, EntB), MkEdge(EntB, EntC)>>, EntB)
ChainProps ==
    /\ isOpen = TRUE
    /\ tableFqn = "B"
    /\ loading = FALSE
    /\ error = ""
    /\ lineageData = ChainData
    /\ rendered = [loading |-> FALSE, error |-> "", lineageData |-> lineageData]
    /\ inflight = {}
    /\ lastMerged = NoMerge

\* The viewer as a unit: mounted on props that do not change, without the
\* optional onExpandNode/onCollapseNode callbacks. The buttons clicked are
\* those of the canvas, which lags behind the hidden sets until the layout
\* of the next transform resolves.
InitViewer ==
    /\ (ViewerProps(MaxVEdges) \/ ChainProps)
    /\ upstreamHidden = {}
    /\ downstreamHidden = {}
    /\ ViewIdle
    /\ ClosureIdle

\* A click on the expand button of flow node i: handleExpand(entity, dir).
ClickExpand(i, dir) ==
    /\ i \in DOMAIN flow.nodes
    /\ Control(flow.nodes[i], dir) = "expand"
    /\ LET nodeId == Key(flow.nodes[i].entity)
       IN  /\ upstreamHidden' = IF dir = "upstream"
                                 THEN ExpandedSet(upstreamHidden, nodeId)
                                 ELSE upstreamHidden
           /\ downstreamHidden' = IF dir = "downstream"
                                   THEN ExpandedSet(downstreamHidden, nodeId)
                                   ELSE downstreamHidden
           /\ lastToggle' = [op |-> "expand", key |-> nodeId, direction |-> dir,
                              was |-> nodeId \in HiddenAt(dir, upstreamHidden,
                                                          downstreamHidden),
                              before |-> <<>>]
    /\ UNCHANGED <<isOpen, tableFqn, loading, error, lineageData, rendered,
                   inflight, lastMerged, flow, layout, pendingLayouts, query>>
    /\ UNCHANGED closureVars

\* A click on the collapse button of flow node i: handleCollapse(entity, dir).
ClickCollapse(i, dir) ==
    /\ i \in DOMAIN flow.nodes
    /\ Control(flow.nodes[i], dir) = "collapse"
    /\ LET nodeId == Key(flow.nodes[i].entity)
       IN  /\ upstreamHidden' = IF dir = "upstream"
                                 THEN CollapsedSet(upstreamHidden, nodeId)
                                 ELSE upstreamHidden
           /\ downstreamHidden' = IF dir = "downstream"
                                   THEN CollapsedSet(downstreamHidden, nodeId)
                                   ELSE downstreamHidden
           /\ lastToggle' = [op |-> "collapse", key |-> nodeId, direction |-> dir,
                              was |-> nodeId \in HiddenAt(dir, upstreamHidden,
                                                          downstreamHidden),
                              before |-> FlowNodes(rendered.lineageData,
                                                   upstreamHidden, downstreamHidden)]
    /\ UNCHANGED <<isOpen, tableFqn, loading, error, lineageData, rendered,
                   inflight, lastMerged, flow, layout, pendingLayouts, query>>
    /\ UNCHANGED closureVars

NextViewer ==
    \/ RunTransform
    \/ \E i \in 1..Cardinality(ViewEntities), dir \in Directions : ClickExpand(i, dir)
    \/ \E i \in 1..Cardinality(ViewEntities), dir \in Directions : ClickCollapse(i, dir)

SpecViewer == InitViewer /\ [][NextViewer]_vars

\* C13: a collapse of a (node, direction) that is already hidden, and an
\* expand of one that is already visible, leave both hidden-direction sets
\* as they were.
C13_TogglesIdempotent ==
    [][(\/ /\ lastToggle'.op = "collapse"
           /\ lastToggle'.key \in HiddenAt(lastToggle'.direction,
                                           upstreamHidden, downstreamHidden)
        \/ /\ lastToggle'.op = "expand"
           /\ lastToggle'.key \notin HiddenAt(lastToggle'.direction,
                                              upstreamHidden, downstreamHidden)) =>
          /\ upstreamHidden' = upstreamHidden
          /\ downstreamHidden' = downstreamHidden]_vars

\* The collapse made last was made at a (node, direction) already hidden,
\* through a button the canvas still showed.
C13_Witness ==
    /\ lastToggle.op = "collapse"
    /\ lastToggle.was
    /\ lastToggle.key \in HiddenAt(lastToggle.direction, upstreamHidden,
                                    downstreamHidden)

\* C14: an expand that follows the collapse of the same (node, direction),
\* visible before that collapse, on an unchanged WorkingGraph renders the
\* nodes that were rendered before the collapse.
C14_CollapseExpandRoundTrip ==
    [][(/\ lastToggle.op = "collapse"
        /\ ~lastToggle.was
        /\ lastToggle'.op = "expand"
        /\ lastToggle'.key = lastToggle.key
        /\ lastToggle'.direction = lastToggle.direction
        /\ rendered'.lineageData = rendered.lineageData) =>
          FlowNodes(rendered'.lineageData, upstreamHidden', downstreamHidden')
             = lastToggle.before]_vars

\* A collapse that took nodes off the canvas has been undone by the expand of
\* the same (node, direction), and the canvas shows the result.
C14_Witness ==
    /\ lastToggle.op = "expand"
    /\ lastToggle.was
    /\ flow.done
    /\ Len(flow.nodes) = Len(rendered.lineageData.nodes)
    /\ Len(flow.nodes) > 1
    /\ HasDownstreamConnections(rendered.lineageData.edges, lastToggle.key)
    /\ upstreamHidden = {} /\ downstreamHidden = {}

\* A step that is a handleExpand or handleCollapse call (lastToggle' tells
\* which): the canvas is left to the next transform.
ToggleStep == lastToggle'.op # "none" /\ flow' = flow

OtherDirection(dir) == IF dir = "upstream" THEN "downstream" ELSE "upstream"

\* C15: a collapse or expand of (n, d) changes at most the membership of n's
\* key in the hidden set of d: the set of the other direction, the membership
\* of every other key in d's set and the WorkingGraph stay as they are.
C15_ToggleFrame ==
    [][ToggleStep =>
          LET key == lastToggle'.key
              dir == lastToggle'.direction
          IN  /\ HiddenAt(OtherDirection(dir), upstreamHidden', downstreamHidden')
                    = HiddenAt(OtherDirection(dir), upstreamHidden, downstreamHidden)
              /\ HiddenAt(dir, upstreamHidden', downstreamHidden') \ {key}
                    = HiddenAt(dir, upstreamHidden, downstreamHidden) \ {key}
              /\ lineageData' = lineageData
              /\ rendered'.lineageData = rendered.lineageData]_vars

\* An expand has taken a key out of a hidden set that holds another key, while
\* the set of the other direction holds one too.
C15_Witness ==
    /\ lastToggle.op = "expand"
    /\ lastToggle.was
    /\ HiddenAt(lastToggle.direction, upstreamHidden, downstreamHidden) # {}
    /\ HiddenAt(OtherDirection(lastToggle.direction), upstreamHidden,
                downstreamHidden) # {}

\* ------------------------------------------ properties of the transform
\* The canvas holds the output of the transform of the current props and
\* hidden sets.
Transformed ==
    /\ flow.done
    /\ flow = TransformToReactFlowData(rendered.lineageData, tableFqn,
                                       upstreamHidden, downstreamHidden, flow)

\* Some edge of the WorkingGraph targets / is sourced from the entity.
EdgeInto(n) == \E e \in SeqRange(rendered.lineageData.edges) : Key(e.toEntity) = Key(n)
EdgeOutOf(n) == \E e \in SeqRange(rendered.lineageData.edges) : Key(e.fromEntity) = Key(n)
EdgeAt(n, dir) == IF dir = "upstream" THEN EdgeInto(n) ELSE EdgeOutOf(n)

\* C16: a rendered node that is not the center never shows the upstream
\* collapse button; with an upstream connection it shows no upstream button
\* while its upstream is visible and the expand button while it is hidden.
C16_NoUpstreamCollapseOffCenter ==
    Transformed =>
        \A i \in DOMAIN flow.nodes :
            LET n == flow.nodes[i].entity
                c == UpstreamControl(flow.nodes[i])
            IN  Key(n) # tableFqn =>
                    /\ c # "collapse"
                    /\ (EdgeInto(n) /\ Key(n) \notin upstreamHidden) =>
                           c \notin {"expand", "collapse"}
                    /\ (EdgeInto(n) /\ Key(n) \in upstreamHidden) => c = "expand"

\* Two nodes off the center with an upstream connection are rendered, one
\* with its upstream visible and one with it hidden.
C16_Witness ==
    /\ Transformed
    /\ \E i, j \in DOMAIN flow.nodes :
          /\ Key(flow.nodes[i].entity) # tableFqn
          /\ Key(flow.nodes[j].entity) # tableFqn
          /\ EdgeInto(flow.nodes[i].entity)
          /\ EdgeInto(flow.nodes[j].entity)
          /\ Key(flow.nodes[i].entity) \notin upstreamHidden
          /\ Key(flow.nodes[j].entity) \in upstreamHidden

\* C17: every rendered node that has a downstream edge and whose downstream
\* is not hidden shows the downstream collapse button.
C17_DownstreamCollapseEverywhere ==
    Transformed =>
        \A i \in DOMAIN flow.nodes :
            LET n == flow.nodes[i].entity
            IN  (EdgeOutOf(n) /\ Key(n) \notin downstreamHidden) =>
                    DownstreamControl(flow.nodes[i]) = "collapse"

\* A node off the center with a visible downstream edge is rendered.
C17_Witness ==
    /\ Transformed
    /\ \E i \in DOMAIN flow.nodes :
          /\ Key(flow.nodes[i].entity) # tableFqn
          /\ EdgeOutOf(flow.nodes[i].entity)
          /\ Key(flow.nodes[i].entity) \notin downstreamHidden

\* C18: every rendered node that has a connection in a direction and whose
\* key is in the hidden set of that direction shows the expand button, not
\* the collapse button, of that direction.
C18_HiddenShowsExpand ==
    Transformed =>
        \A i \in DOMAIN flow.nodes : \A dir \in Directions :
            LET n == flow.nodes[i].entity
            IN  (EdgeAt(n, dir) /\ Key(n) \in HiddenAt(dir, upstreamHidden,
                                                       downstreamHidden)) =>
                    Control(flow.nodes[i], dir) = "expand"

\* The center is rendered with an upstream connection and its upstream hidden,
\* and some node with a downstream connection and its downstream hidden.
C18_Witness ==
    /\ Transformed
    /\ \E i, j \in DOMAIN flow.nodes :
          /\ Key(flow.nodes[i].entity) = tableFqn
          /\ EdgeInto(flow.nodes[i].entity)
          /\ Key(flow.nodes[i].entity) \in upstreamHidden
          /\ EdgeOutOf(flow.nodes[j].entity)
          /\ Key(flow.nodes[j].entity) \in downstreamHidden

\* The entity is classified upstream / downstream: its key is the `from` key
\* / the `to` key of some edge.
ClassifiedUpstream(n) == Key(n) \in UpstreamMap(rendered.lineageData.edges)
ClassifiedDownstream(n) == Key(n) \in DownstreamMap(rendered.lineageData.edges)

\* C19: a rendered node shows something on its upstream side (a button or,
\* off the center, the placeholder) exactly when it is the center, or an edge
\* targets it, or none does but it is classified upstream; and the same on
\* its downstream side with the edges sourced from it and the downstream
\* classification.
C19_ControlPolicy ==
    Transformed =>
        \A i \in DOMAIN flow.nodes :
            LET n == flow.nodes[i].entity
            IN  /\ UpstreamControl(flow.nodes[i]) # "none" <=>
                       \/ Key(n) = tableFqn
                       \/ EdgeInto(n)
                       \/ (~EdgeInto(n) /\ ClassifiedUpstream(n))
                /\ DownstreamControl(flow.nodes[i]) # "none" <=>
                       \/ Key(n) = tableFqn
                       \/ EdgeOutOf(n)
                       \/ (~EdgeOutOf(n) /\ ClassifiedDownstream(n))

\* C20: each rendered edge has its source and its target among the rendered
\* nodes, and no rendered node and no end of a rendered edge has its key in
\* the hidden-node set.
C20_RenderedGraphClosed ==
    Transformed =>
        LET hidden == GetHiddenNodes(rendered.lineageData.edges, upstreamHidden,
                                     downstreamHidden)
            ids == {flow.nodes[i].entity.id : i \in DOMAIN flow.nodes}
        IN  /\ \A i \in DOMAIN flow.nodes : Key(flow.nodes[i].entity) \notin hidden
            /\ \A k \in DOMAIN flow.edges :
                  LET e == rendered.lineageData.edges[flow.edges[k].id + 1]
                  IN  /\ flow.edges[k].source \in ids
                      /\ flow.edges[k].target \in ids
                      /\ Key(e.fromEntity) \notin hidden
                      /\ Key(e.toEntity) \notin hidden

\* Nodes are hidden, and the canvas still shows an edge, while an edge that
\* touches a hidden node is left out.
C20_Witness ==
    /\ Transformed
    /\ GetHiddenNodes(rendered.lineageData.edges, upstreamHidden, downstreamHidden) # {}
    /\ Len(flow.edges) > 0
    /\ Len(flow.edges) < Len(FlowEdgesOfHidden(rendered.lineageData, upstreamHidden,
                                                downstreamHidden))

\* ------------------------------------------------ the chain A -> B -> C
\* The role the flow node data gives a node.
Role(d) ==
    IF d.isCenter THEN "center"
    ELSE IF d.isUpstream /\ ~d.isDownstream THEN "upstream"
    ELSE IF d.isDownstream /\ ~d.isUpstream THEN "downstream"
    ELSE IF d.isUpstream THEN "both"
    ELSE "neither"
FlowRoles == [i \in DOMAIN flow.nodes |-> <<flow.nodes[i].entity, Role(flow.nodes[i])>>]
FlowEnds == [k \in DOMAIN flow.edges |-> <<flow.edges[k].source, flow.edges[k].target>>]

\* C21: on the graph A -> B -> C with center B, the transform with both
\* hidden sets empty gives the nodes A (upstream), B (center), C (downstream)
\* and the edges A -> B, B -> C; with downstream collapsed at B the
\* hidden-node set is {C}, the nodes are A and B and the one edge is A -> B.
C21_ChainScenario ==
    (Transformed /\ rendered.lineageData = ChainData /\ tableFqn = "B"
       /\ upstreamHidden = {}) =>
        /\ downstreamHidden = {} =>
              /\ FlowRoles = <<<<EntA, "upstream">>, <<EntB, "center">>,
                               <<EntC, "downstream">>>>
              /\ FlowEnds = <<<<"1", "2">>, <<"2", "3">>>>
        /\ downstreamHidden = {"B"} =>
              /\ GetHiddenNodes(ChainData.edges, upstreamHidden, downstreamHidden) = {"C"}
              /\ FlowRoles = <<<<EntA, "upstream">>, <<EntB, "center">>>>
              /\ FlowEnds = <<<<"1", "2">>>>

\* Downstream has been collapsed at B on the chain and the canvas shows the
\* result.
C21_Witness ==
    /\ Transformed
    /\ rendered.lineageData = ChainData
    /\ lastToggle = [op |-> "collapse", key |-> "B", direction |-> "downstream",
                     was |-> FALSE, before |-> ChainData.nodes]
    /\ upstreamHidden = {}
    /\ downstreamHidden = {"B"}
    /\ Len(flow.nodes) = 2

\* ------------------------------------------------------------ node roles
\* The shape of a graph explored from the center: no cycle, every edge
\* between nodes of the graph, every other node either upstream of the center
\* (it reaches the center) or downstream of it (the center reaches it), and
\* every edge on one side of the center.
ExploredFromCenter(data, centerFqn) ==
    LET keys == {Key(n) : n \in SeqRange(data.nodes)}
        ups == ReachPlus(BwdRel(data.edges), {centerFqn})
        downs == ReachPlus(FwdRel(data.edges), {centerFqn})
    IN  /\ ~HasCycle(data.edges)
        /\ centerFqn \in keys
        /\ keys \ {centerFqn} = ups \cup downs
        /\ ups \cap downs = {}
        /\ \A e \in SeqRange(data.edges) :
              \/ {Key(e.fromEntity), Key(e.toEntity)} \subseteq ups \cup {centerFqn}
              \/ {Key(e.fromEntity), Key(e.toEntity)} \subseteq downs \cup {centerFqn}

\* C22: on a graph explored from the center, no rendered node other than the
\* center is classified both upstream and downstream.
C22_SingleRole ==
    (Transformed /\ ExploredFromCenter(rendered.lineageData, tableFqn)) =>
        \A i \in DOMAIN flow.nodes : Role(flow.nodes[i]) # "both"

\* ------------------------------------------------ SpecLayout: layoutNodes
NODE_WIDTH == 200
NODE_HEIGHT == 60
\* `const spacing = NODE_HEIGHT + 100`
FallbackSpacing == NODE_HEIGHT + 100

Pos(x, y) == [x |-> x, y |-> y]

\* The flowNodes handed to layoutNodes: { id, position, data } with the
\* temporary position { x: index * 250, y: index * 150 }.
TempNodes(f) ==
    [i \in DOMAIN f.nodes |->
        [id |-> f.nodes[i].entity.id,
         position |-> Pos((i - 1) * 250, (i - 1) * 150),
         data |-> f.nodes[i]]]

\* nodes.findIndex(n => n.id === id), 1-based; 0 when there is none.
FindIndex(nodes, id) ==
    IF \E i \in DOMAIN nodes : nodes[i].id = id
    THEN CHOOSE i \in DOMAIN nodes :
             nodes[i].id = id /\ \A j \in 1..(i - 1) : nodes[j].id # id
    ELSE 0

\* A fallback that moves every node down from where it is.
LayoutNodesFallbackShifting(nodes) ==
    [j \in DOMAIN nodes |->
        [nodes[j] EXCEPT !.position = Pos(@.x, @.y + FallbackSpacing)]]

\* layoutNodesFallback: the center, then the upstream nodes, then the
\* downstream nodes are written over a copy of the list, each at the index
\* its id is found at.
LayoutNodesFallback(nodes) ==
    LET ups == SelectSeq(nodes, LAMBDA n : n.data.isUpstream)
        downs == SelectSeq(nodes, LAMBDA n : n.data.isDownstream)
        centerAt == IF \E i \in DOMAIN nodes : nodes[i].data.isCenter
                    THEN CHOOSE i \in DOMAIN nodes :
                             /\ nodes[i].data.isCenter
                             /\ \A j \in 1..(i - 1) : ~nodes[j].data.isCenter
                    ELSE 0
        UpAt(j) == {k \in DOMAIN ups : FindIndex(nodes, ups[k].id) = j}
        DownAt(j) == {k \in DOMAIN downs : FindIndex(nodes, downs[k].id) = j}
        Last(S) == CHOOSE k \in S : \A m \in S : m <= k
    IN  [j \in DOMAIN nodes |->
            IF DownAt(j) # {}
            THEN [downs[Last(DownAt(j))] EXCEPT
                     !.position = Pos(750, 50 + (Last(DownAt(j)) - 1) * FallbackSpacing)]
            ELSE IF UpAt(j) # {}
            THEN [ups[Last(UpAt(j))] EXCEPT
                     !.position = Pos(50, 50 + (Last(UpAt(j)) - 1) * FallbackSpacing)]
            ELSE IF centerAt # 0 /\ FindIndex(nodes, nodes[centerAt].id) = j
            THEN [nodes[centerAt] EXCEPT !.position = Pos(400, 200)]
            ELSE nodes[j]]

\* What `await elk.layout(elkGraph)` does: it throws, or it resolves to a
\* graph whose children are the nodes in a column, or to one without children.
ElkOutcomes == {"throws", "column", "nochildren"}
ElkChildren(out, nodes) ==
    IF out = "column"
    THEN [i \in DOMAIN nodes |-> [id |-> nodes[i].id, x |-> 0, y |-> (i - 1) * 100]]
    ELSE <<>>

\* layoutNodes without the catch block: nothing is returned when ELK throws.
LayoutNodesGivesUp(nodes, edges, out) ==
    IF out = "throws" THEN <<>> ELSE nodes

\* layoutNodes(nodes, edges), with `out` the outcome of elk.layout: the list
\* the promise resolves to.
LayoutNodes(nodes, edges, out) ==
    IF Len(nodes) = 0 THEN nodes
    ELSE IF out = "throws" THEN LayoutNodesFallback(nodes)
    ELSE LET ch == ElkChildren(out, nodes)
             at(j) == CHOOSE c \in DOMAIN ch :
                          ch[c].id = nodes[j].id /\ \A b \in 1..(c - 1) : ch[b].id # nodes[j].id
         IN  [j \in DOMAIN nodes |->
                 IF \E c \in DOMAIN ch : ch[c].id = nodes[j].id
                 THEN [nodes[j] EXCEPT !.position = Pos(ch[at(j)].x, ch[at(j)].y)]
                 ELSE nodes[j]]

\* A LineageViewer freshly mounted, on a graph of the catalog or on the chain.
InitLayout ==
    /\ (ViewerProps(MaxVEdges) \/ ChainProps)
    /\ upstreamHidden = {}
    /\ downstreamHidden \in {{}, {tableFqn}}
    /\ ViewIdle
    /\ ClosureIdle

\* The effect runs transformToReactFlowData; its layoutNodes call resolves
\* and the canvas is set: the first layout.
LayoutFirst(out) ==
    /\ layout.calls = 0
    /\ ViewerMounted(isOpen, rendered)
    /\ flow' = TransformToReactFlowData(rendered.lineageData, tableFqn,
                                        upstreamHidden, downstreamHidden, flow)
    /\ flow' # flow
    /\ layout' = [calls |-> 1, elk |-> out,
                  nodes |-> LayoutNodes(TempNodes(flow'), flow'.edges, out)]
    /\ UNCHANGED <<closureVars, sessionVars, lastToggle, pendingLayouts, query>>

\* layoutNodes is called once more: on the list the transform makes of the
\* same props, or on the list the first call returned.
LayoutAgain(out, src) ==
    /\ layout.calls = 1
    /\ layout' = [calls |-> 2, elk |-> out,
                  nodes |-> LayoutNodes(IF src = "same" THEN TempNodes(flow)
                                                        ELSE layout.nodes,
                                        flow.edges, out)]
    /\ UNCHANGED <<closureVars, sessionVars, flow, lastToggle, pendingLayouts, query>>

NextLayout ==
    \/ \E out \in ElkOutcomes : LayoutFirst(out)
    \/ \E out \in ElkOutcomes, src \in {"same", "returned"} : LayoutAgain(out, src)

SpecLayout == InitLayout /\ [][NextLayout]_vars

\* Two boxes of NODE_WIDTH x NODE_HEIGHT at positions p and q overlap.
Overlap(p, q) ==
    /\ p.x < q.x + NODE_WIDTH /\ q.x < p.x + NODE_WIDTH
    /\ p.y < q.y + NODE_HEIGHT /\ q.y < p.y + NODE_HEIGHT

\* The number of nodes before index j that have the flag.
RankUp(nodes, j) == Cardinality({i \in 1..(j - 1) : nodes[i].data.isUpstream})
RankDown(nodes, j) == Cardinality({i \in 1..(j - 1) : nodes[i].data.isDownstream})

\* The first layout was made by the fallback.
FellBack == layout.calls = 1 /\ layout.elk = "throws"

\* The fallback puts the center and the nodes of one role where it is said.
FallbackPlaces ==
    FellBack =>
        \A j \in DOMAIN layout.nodes :
            LET n == layout.nodes[j]
            IN  /\ Role(n.data) = "center" => n.position = Pos(400, 200)
                /\ Role(n.data) = "upstream" =>
                       n.position = Pos(50, 50 + 160 * RankUp(layout.nodes, j))
                /\ Role(n.data) = "downstream" =>
                       n.position = Pos(750, 50 + 160 * RankDown(layout.nodes, j))

\* C23: when elk.layout throws, the list returned has the center at
\* (400, 200), the i-th upstream node at (50, 50 + 160 i), the i-th downstream
\* node at (750, 50 + 160 i), and no two nodes of it, whatever their role,
\* have overlapping boxes.
C23_FallbackNonOverlapping ==
    /\ FallbackPlaces
    /\ FellBack =>
          \A i, j \in DOMAIN layout.nodes :
              i # j => ~Overlap(layout.nodes[i].position, layout.nodes[j].position)

\* A step in which a layoutNodes call resolves.
LayoutStep == layout'.calls = layout.calls + 1

\* C24: whatever elk.layout does, layoutNodes resolves to a list of exactly
\* the nodes it was given (the same ids in the same number), the canvas is
\* set to the transform's nodes and edges, and the session's error and
\* loading state are left as they are.
C24_LayoutFailureNotSurfaced ==
    [][LayoutStep =>
          /\ [j \in DOMAIN layout'.nodes |-> layout'.nodes[j].id]
                = [j \in DOMAIN flow'.nodes |-> flow'.nodes[j].entity.id]
          /\ flow'.done
          /\ flow' = TransformToReactFlowData(rendered.lineageData, tableFqn,
                                              upstreamHidden, downstreamHidden, flow)
          /\ error' = error /\ error' = ""
          /\ loading' = loading
          /\ lineageData' = lineageData]_vars

\* elk.layout has thrown on a canvas of several nodes and edges, and the
\* list returned holds them all.
C24_Witness ==
    /\ FellBack
    /\ Len(layout.nodes) = 3
    /\ Len(flow.nodes) = 3
    /\ Len(flow.edges) = 2
    /\ error = ""

Handled(type) ==
    /\ isOpen
    /\ inflight' # inflight
    /\ inflight' \subseteq inflight
    /\ lastMerged'.type = type

\* A click on "Try Again": an open session posts a getLineage request.
RetryStep ==
    /\ isOpen /\ isOpen'
    /\ \E r \in inflight' \ inflight : r.type = "getLineage"

\* C26: the answer to a failed initial fetch leaves the session with an
\* error, without WorkingGraph and with loading off; "Try Again", offered in
\* that state, posts a getLineage request for the same table, clears the
\* error and turns loading on; the answer to a successful initial fetch
\* leaves the session loaded: no error, loading off, a WorkingGraph.
C26_RetryableInitialLoad ==
    [][/\ Handled("lineageError") =>
             error' # "" /\ lineageData'.null /\ ~loading'
       /\ RetryStep =>
             /\ rendered.error # ""
             /\ tableFqn' = tableFqn
             /\ Req("getLineage", tableFqn, "", "") \in inflight'
             /\ error' = "" /\ loading'
             /\ lineageData' = lineageData
       /\ Handled("lineageData") =>
             error' = "" /\ ~loading' /\ ~lineageData'.null]_vars

\* After a failed initial fetch and "Try Again" the session is loaded and the
\* viewer is rendered.
C26_Witness ==
    /\ lastMerged.retried
    /\ lastMerged.type = "lineageData"
    /\ Loaded
    /\ ViewerMounted(isOpen, rendered)
    /\ rendered = Snapshot

\* C27: the answer to a request whose catalog lineage lacks the entity asked
\* for has the outcome of a failed fetch: to the initial load, the error
\* state without WorkingGraph; to an expand, the WorkingGraph and the error
\* as they were.
C27_CenterNotFoundIsFailure ==
    [][\A kind \in {"nocenter", "failed"} :
          /\ (Handled("lineageError") /\ lastMerged'.answer = kind) =>
                error' # "" /\ lineageData'.null /\ ~loading'
          /\ (isOpen /\ inflight' # inflight /\ inflight' \subseteq inflight
                 /\ lastMerged'.answer = kind) =>
                /\ lastMerged'.type \in {"lineageError", "expandedLineageData"}
                /\ lastMerged'.type = "expandedLineageData" =>
                      /\ lineageData' = lineageData
                      /\ error' = error
                      /\ ~lastMerged'.merged]_vars

\* The session shows the error of an initial load whose answer lacked the
\* table.
C27_Witness ==
    /\ isOpen
    /\ lastMerged.answer = "nocenter"
    /\ lastMerged.type = "lineageError"
    /\ rendered.error = "Center node not found"
    /\ rendered.lineageData.null

\* ------------------------------------------------------ the expand fetch
\* The expand requests posted and not yet answered.
ExpandRequests == {req \in inflight : req.type = "expandLineage"}

\* C28: the fetch made for an expand request passes one positive depth, that
\* of the request's direction, and 0 for the other direction, to the service
\* and in the query; and of a lineage the catalog returns, the edges passed
\* on in the message are those of that direction only.
C28_DirectionalFetch ==
    \A req \in ExpandRequests :
        LET c == ExpandCall(req.direction)
            q == GetLineageParams(req.nodeId, c.upstreamDepth, c.downstreamDepth)
        IN  /\ c.fn = "getDirectionalLineage"
            /\ req.direction = "upstream" =>
                   /\ c.upstreamDepth > 0 /\ c.downstreamDepth = 0
                   /\ q.upstreamDepth > 0 /\ q.downstreamDepth = 0
            /\ req.direction = "downstream" =>
                   /\ c.downstreamDepth > 0 /\ c.upstreamDepth = 0
                   /\ q.downstreamDepth > 0 /\ q.upstreamDepth = 0
            /\ \A raw \in RawResponses :
                   GatewayAnswer(raw, req.nodeId) = "ok" =>
                       HandleExpandLineage(req, raw).data.edges
                           = IF req.direction = "upstream" THEN raw.upstreamEdges
                                                           ELSE raw.downstreamEdges

\* A loaded session has an upstream and a downstream expand in flight.
C28_Witness ==
    /\ Loaded
    /\ \E r1, r2 \in ExpandRequests :
          /\ ~r1.closed /\ ~r2.closed
          /\ r1.direction = "upstream"
          /\ r2.direction = "downstream"

\* C29: the fetch made for an expand request asks for one level of lineage
\* in the request's direction, and for as many levels in the query of an
\* upstream expand as in the query of a downstream expand.
C29_OneMoreLevel ==
    \A req \in ExpandRequests :
        LET c == ExpandCall(req.direction)
            up == ExpandCall("upstream")
            down == ExpandCall("downstream")
        IN  /\ (IF req.direction = "upstream" THEN c.upstreamDepth
                                              ELSE c.downstreamDepth) = 1
            /\ GetLineageParams(req.nodeId, up.upstreamDepth,
                                 up.downstreamDepth).upstreamDepth
                  = GetLineageParams(req.nodeId, down.upstreamDepth,
                                     down.downstreamDepth).downstreamDepth

\* ------------------------------------------------------- open and close
\* Closing leaves no WorkingGraph and no error.
CloseClears ==
    [][(isOpen /\ ~isOpen') => (lineageData'.null /\ error' = "")]_vars

\* Opening starts with empty hidden-direction sets and without WorkingGraph.
OpenStartsClean ==
    [][(~isOpen /\ isOpen') =>
          /\ upstreamHidden' = {} /\ downstreamHidden' = {}
          /\ lineageData'.null]_vars

\* An open session gets its WorkingGraph from the answer to a getLineage
\* request that it posted itself.
LoadedByOwnFetch ==
    [][(isOpen /\ isOpen' /\ lineageData.null /\ ~lineageData'.null) =>
          \E req \in inflight \ inflight' :
              req.type = "getLineage" /\ ~req.closed]_vars

\* C30: after a close the WorkingGraph and the error are empty; a session
\* that is opened has both hidden-direction sets empty, no WorkingGraph yet,
\* and gets as WorkingGraph only what its own initial fetch returns.
C30_SessionLifecycle ==
    CloseClears /\ OpenStartsClean /\ LoadedByOwnFetch

\* ------------------------- SpecRefs: edges that name their ends by id only
\* The reference an edge makes to entity n when it carries no
\* fullyQualifiedName: { id, type }.
IdOnly(n) == [id |-> n.id, fullyQualifiedName |-> ""]
MixedRefs == {EntT, EntU, IdOnly(EntT), IdOnly(EntU)}

\* The viewer the modal renders for table "T" on the tables T and U, with
\* edges whose ends are named with or without fullyQualifiedName.
MixedProps ==
    /\ isOpen = TRUE
    /\ tableFqn = "T"
    /\ loading = FALSE
    /\ error = ""
    /\ \E es \in {SetToSeq(S) : S \in {X \in SUBSET EdgesOver(MixedRefs) :
                                           Cardinality(X) <= MaxVEdges}} :
          lineageData = MkData(<<EntT, EntU>>, es, EntT)
    /\ rendered = [loading |-> FALSE, error |-> "", lineageData |-> lineageData]
    /\ inflight = {}
    /\ lastMerged = NoMerge

InitRefs ==
    /\ MixedProps
    /\ upstreamHidden = {}
    /\ downstreamHidden = {}
    /\ ViewIdle
    /\ ClosureIdle

SpecRefs == InitRefs /\ [][NextViewer]_vars

\* The ids of the entities on the canvas.
FlowIds == {flow.nodes[i].entity.id : i \in DOMAIN flow.nodes}

\* The entities of the graph that are collapsed in direction dir.
CollapsedAt(dir) ==
    {n \in SeqRange(rendered.lineageData.nodes) :
        Key(n) \in HiddenAt(dir, upstreamHidden, downstreamHidden)}

\* C31: once the canvas shows the transform of the hidden sets, no target of
\* an edge from a node collapsed downstream and no source of an edge to a
\* node collapsed upstream is on it, whether the edge names its ends with a
\* fullyQualifiedName or by id only.
C31_KeysIdentifySameEntity ==
    Transformed =>
        \A e \in SeqRange(rendered.lineageData.edges) :
            /\ (\E n \in CollapsedAt("downstream") : e.fromEntity.id = n.id) =>
                   e.toEntity.id \notin FlowIds
            /\ (\E n \in CollapsedAt("upstream") : e.toEntity.id = n.id) =>
                   e.fromEntity.id \notin FlowIds

\* ------------------------------- SpecAsync: layouts that resolve in any order
\* What a run of transformToReactFlowData adds to the pending layouts: the
\* nodes and edges its layoutNodes call will set, or nothing when it returns
\* before the call.
Started(data, centerFqn, up, down, pending) ==
    LET out == TransformToReactFlowData(data, centerFqn, up, down, EmptyFlow)
    IN  IF out.done THEN Append(pending, out) ELSE pending

\* A LineageViewer just mounted: the effect has run the first transform.
InitAsync ==
    /\ ViewerProps(MaxVEdges)
    /\ upstreamHidden = {}
    /\ downstreamHidden = {}
    /\ flow = EmptyFlow
    /\ lastToggle = NoToggle
    /\ layout = NoLayout
    /\ pendingLayouts = Started(lineageData, tableFqn, {}, {}, <<>>)
    /\ query = NoQuery
    /\ ClosureIdle

\* A click on a button of flow node i: the updater makes a new Set, the
\* viewer renders, and the effect runs the transform of the new sets.
AsyncToggle(i, dir, op) ==
    /\ Len(pendingLayouts) < MaxPending
    /\ LET nodeId == Key(flow.nodes[i].entity)
           New(prev) == IF op = "expand" THEN ExpandedSet(prev, nodeId)
                                         ELSE CollapsedSet(prev, nodeId)
       IN  /\ upstreamHidden' = IF dir = "upstream" THEN New(upstreamHidden)
                                                     ELSE upstreamHidden
           /\ downstreamHidden' = IF dir = "downstream" THEN New(downstreamHidden)
                                                         ELSE downstreamHidden
           /\ lastToggle' = [op |-> op, key |-> nodeId, direction |-> dir,
                              was |-> nodeId \in HiddenAt(dir, upstreamHidden,
                                                          downstreamHidden),
                              before |-> <<>>]
    /\ pendingLayouts' = Started(rendered.lineageData, tableFqn, upstreamHidden',
                                 downstreamHidden', pendingLayouts)
    /\ UNCHANGED <<isOpen, tableFqn, loading, error, lineageData, rendered,
                   inflight, lastMerged, flow, layout, query>>
    /\ UNCHANGED closureVars

AsyncExpand(i, dir) ==
    /\ i \in DOMAIN flow.nodes
    /\ Control(flow.nodes[i], dir) = "expand"
    /\ AsyncToggle(i, dir, "expand")

AsyncCollapse(i, dir) ==
    /\ i \in DOMAIN flow.nodes
    /\ Control(flow.nodes[i], dir) = "collapse"
    /\ AsyncToggle(i, dir, "collapse")

\* A completion that waits for the calls made before it.
InTurn(k) == k = 1
\* layoutNodes promises resolve in any order.
AnyOrder(k) == TRUE

\* The k-th pending layoutNodes promise resolves: setReactFlowNodes and
\* setReactFlowEdges with what its transform had computed.
CompleteLayout(k) ==
    /\ k \in DOMAIN pendingLayouts
    /\ AnyOrder(k)
    /\ flow' = pendingLayouts[k]
    /\ pendingLayouts' = [j \in 1..(Len(pendingLayouts) - 1) |->
                             IF j < k THEN pendingLayouts[j] ELSE pendingLayouts[j + 1]]
    /\ UNCHANGED <<closureVars, sessionVars, lastToggle, layout, query>>

NextAsync ==
    \/ \E i \in 1..Cardinality(ViewEntities), dir \in Directions : AsyncExpand(i, dir)
    \/ \E i \in 1..Cardinality(ViewEntities), dir \in Directions : AsyncCollapse(i, dir)
    \/ \E k \in 1..MaxPending : CompleteLayout(k)

SpecAsync == InitAsync /\ [][NextAsync]_vars

\* The entities and the edge ends of a transform's output.
NodeSetOf(f) == {f.nodes[i].entity : i \in DOMAIN f.nodes}
EdgeSetOf(f) == {<<f.edges[k].source, f.edges[k].target>> : k \in DOMAIN f.edges}

\* C32: whenever every layout started has completed, the nodes and the edges
\* on the canvas are those of the transform of the current graph and hidden
\* sets, in whatever order the layouts completed.
C32_LastStateWins ==
    (pendingLayouts = <<>> /\ flow.done) =>
        LET now == TransformToReactFlowData(rendered.lineageData, tableFqn,
                                            upstreamHidden, downstreamHidden, flow)
        IN  /\ NodeSetOf(flow) = NodeSetOf(now)
            /\ EdgeSetOf(flow) = EdgeSetOf(now)

\* The keys of the entities on the canvas.
FlowKeys == {Key(flow.nodes[i].entity) : i \in DOMAIN flow.nodes}
\* The graph lists the entity the viewer is centred on.
CenterListed == \E n \in SeqRange(rendered.lineageData.nodes) : Key(n) = tableFqn

\* C33: after any sequence of clicks on the expand and collapse buttons the
\* canvas offered, once the canvas shows the transform of the hidden sets,
\* the center entity of the graph is on the canvas.
C33_CenterStaysRendered ==
    (Transformed /\ CenterListed) => tableFqn \in FlowKeys

\* Flow node i shows an expand button on a side that is collapsed at it.
OffersWayBack(i) ==
    \E dir \in Directions :
        /\ Key(flow.nodes[i].entity) \in HiddenAt(dir, upstreamHidden, downstreamHidden)
        /\ Control(flow.nodes[i], dir) = "expand"

\* C34: once the canvas shows the transform of the hidden sets, if one of the
\* hidden-direction sets is non-empty then some node on the canvas shows an
\* expand button for a direction collapsed at it, also on a graph with a
\* cycle through the collapsed node.
C34_CollapseCanBeUndone ==
    (Transformed /\ upstreamHidden \cup downstreamHidden # {}) =>
        \E i \in DOMAIN flow.nodes : OffersWayBack(i)

\* The keys of the listed entities one edge away from key k in direction dir:
\* the targets of the edges from k (downstream), the sources of the edges to
\* k (upstream).
Neighbours(k, dir) ==
    {Key(n) : n \in {m \in SeqRange(rendered.lineageData.nodes) :
        \E e \in SeqRange(rendered.lineageData.edges) :
            IF dir = "downstream"
            THEN Key(e.fromEntity) = k /\ Key(e.toEntity) = Key(m)
            ELSE Key(e.toEntity) = k /\ Key(e.fromEntity) = Key(m)}}

\* The hidden flag flow node data d carries for direction dir.
FlagHidden(d, dir) == IF dir = "upstream" THEN d.upstreamHidden ELSE d.downstreamHidden

\* A node drawn as collapsed in a direction has no neighbour of that
\* direction on the canvas.
HiddenFlagsAgree ==
    \A i \in DOMAIN flow.nodes, dir \in Directions :
        FlagHidden(flow.nodes[i], dir) =>
            Neighbours(Key(flow.nodes[i].entity), dir) \cap FlowKeys = {}

\* A node drawn as not collapsed in a direction has all its neighbours of
\* that direction on the canvas.
VisibleFlagsAgree ==
    \A i \in DOMAIN flow.nodes, dir \in Directions :
        ~FlagHidden(flow.nodes[i], dir) =>
            Neighbours(Key(flow.nodes[i].entity), dir) \subseteq FlowKeys

\* C35: once the canvas shows the transform of the hidden sets, every node on
\* it whose downstream (upstream) is not hidden has every target (source) of
\* its edges on the canvas, and every node whose downstream (upstream) is
\* hidden has none of them on the canvas.
C35_FlagsAgreeWithCanvas ==
    Transformed => (HiddenFlagsAgree /\ VisibleFlagsAgree)

\* --------------------- SpecMessages: answers arriving at a session of any table
\* The tables a session may be open on while answers are under way.
SessionTables == {"T", "U"}

\* The requests whose answers may still be under way: those of this session
\* and those of the sessions before it.
RequestsUnderWay ==
    {Req("getLineage", t, "", "") : t \in SessionTables}
    \cup {Req(type, t, n, dir) : type \in {"expandLineage", "collapseLineage"},
                                 t \in SessionTables, n \in SessionTables,
                                 dir \in Directions}

\* [loading, error, lineageData] of an open session on table t: loading,
\* failed, or loaded.
SessionStates(t) ==
    {[loading |-> TRUE, error |-> "", lineageData |-> NullData],
     [loading |-> FALSE, error |-> "Failed to fetch lineage data", lineageData |-> NullData],
     [loading |-> FALSE, error |-> "",
      lineageData |-> MkData(<<EntT, EntU>>, <<MkEdge(EntT, EntU)>>,
                             FindByFqn(<<EntT, EntU>>, t))]}

\* An open session, rendered, with answers under way.
InitMessages ==
    /\ isOpen = TRUE
    /\ tableFqn \in SessionTables
    /\ \E st \in SessionStates(tableFqn) :
          /\ loading = st.loading
          /\ error = st.error
          /\ lineageData = st.lineageData
          /\ rendered = st
    /\ upstreamHidden = {}
    /\ downstreamHidden = {}
    /\ inflight \in {R \in SUBSET RequestsUnderWay :
                        Cardinality(R) \in 1..MaxInflight}
    /\ lastMerged = NoMerge
    /\ ViewIdle
    /\ ClosureIdle

NextMessages ==
    \/ RespondGetLineage
    \/ RespondExpandLineage
    \/ RespondCollapseLineage
    \/ Commit

SpecMessages == InitMessages /\ [][NextMessages]_vars

\* C36: the message event of an answer whose tableFqn is not the session's
\* table leaves loading, error and the WorkingGraph as they are, whatever the
\* type of the message.
C36_ForeignMessageIgnored ==
    [][\A req \in inflight :
          (req \notin inflight' /\ req.tableFqn # tableFqn) =>
              /\ loading' = loading
              /\ error' = error
              /\ lineageData' = lineageData]_vars

\* A lineageData message has been delivered and the session is still loading:
\* the message was another table's.
C36_Witness ==
    /\ lastMerged.type = "lineageData"
    /\ loading
    /\ inflight = {}

\* ------------------------------------------------ what a merge leaves alone
\* C37: the merge of an expand result leaves the session's table and both
\* hidden-direction sets as they are, and the centerNode of the WorkingGraph
\* after it is the centerNode of the graph it was merged into, not the one
\* the expand result names.
C37_MergeKeepsCenterAndHidden ==
    [][MergeStep =>
          /\ tableFqn' = tableFqn
          /\ lineageData'.centerNode = rendered.lineageData.centerNode
          /\ upstreamHidden' = upstreamHidden
          /\ downstreamHidden' = downstreamHidden]_vars

\* An expand result naming another center has been merged while a node was
\* collapsed.
C37_Witness ==
    /\ lastMerged.merged
    /\ lastMerged.data.centerNode # lineageData.centerNode
    /\ lastMerged.data.centerNode # NoEntity
    /\ upstreamHidden \cup downstreamHidden # {}

\* ------------------------------------------- FairSession: answered requests
\* The session with an extension host that answers every getLineage request:
\* handleGetLineage posts lineageData or lineageError for each one.
FairSession == Spec /\ WF_vars(RespondGetLineage)

\* The session has left the loading state with a WorkingGraph or an error.
Settled == ~loading /\ (~lineageData.null \/ error # "")

\* C38: a session that is open and loading is closed or reaches a state
\* where loading is false and a WorkingGraph or an error is present, whatever
\* opens, closes, reopens and retries came before, when every getLineage
\* request is answered.
C38_LoadingEnds == (isOpen /\ loading) ~> (~isOpen \/ Settled)

\* A session reopened or retried has got its answer and is no longer loading.
C38_Witness ==
    /\ isOpen
    /\ Settled
    /\ lastMerged.retried
    /\ lastMerged.type \in {"lineageData", "lineageError"}
    /\ inflight = {}

\* ------------------------------- SpecDepths: the depths of a getLineage query
\* An optional number of a LineageConfig: absent, or a depth.
OptionalDepths ==
    {[given |-> FALSE, value |-> 0]}
    \cup {[given |-> TRUE, value |-> v] : v \in 0..MaxDepth}
\* `const { x = dflt } = config || {}`
OrDefault(opt, dflt) == IF opt.given THEN opt.value ELSE dflt

\* The depths getLineageData works with for a config.
Requested(config) ==
    [upstreamDepth |-> OrDefault(config.upstreamDepth, 1),
     downstreamDepth |-> OrDefault(config.downstreamDepth, 1)]

\* A getLineageData call about to build its query.
InitDepths ==
    /\ SessionIdle
    /\ ClosureIdle
    /\ flow = EmptyFlow
    /\ lastToggle = NoToggle
    /\ layout = NoLayout
    /\ pendingLayouts = <<>>
    /\ \E t \in SessionTables, u \in OptionalDepths, d \in OptionalDepths :
          query = [sent |-> FALSE, fqn |-> t,
                   config |-> [upstreamDepth |-> u, downstreamDepth |-> d],
                   params |-> <<>>]

\* getLineageData builds the URLSearchParams and fetches.
GetLineageData ==
    /\ ~query.sent
    /\ query' = [query EXCEPT
                    !.sent = TRUE,
                    !.params = GetLineageParams(query.fqn,
                                                Requested(query.config).upstreamDepth,
                                                Requested(query.config).downstreamDepth)]
    /\ UNCHANGED <<closureVars, sessionVars, flow, lastToggle, layout, pendingLayouts>>

NextDepths == GetLineageData

SpecDepths == InitDepths /\ [][NextDepths]_vars

\* What a call that asks for depth 0 in both directions sends.
SentForZero == GetLineageParams(query.fqn, 0, 0)

\* C39: in the query sent, a requested upstreamDepth of 1 or more gives a
\* positive upstreamDepth, different from what a requested 0 gives, and a
\* requested downstreamDepth of 1 or more gives a positive downstreamDepth,
\* different from what a requested 0 gives.
C39_OnlyZeroMeansNoTraversal ==
    query.sent =>
        /\ Requested(query.config).upstreamDepth >= 1 =>
              /\ query.params.upstreamDepth > 0
              /\ query.params.upstreamDepth # SentForZero.upstreamDepth
        /\ Requested(query.config).downstreamDepth >= 1 =>
              /\ query.params.downstreamDepth > 0
              /\ query.params.downstreamDepth # SentForZero.downstreamDepth

====
